---- MODULE Spec2Model ----
(***************************************************************************)
(* A model of the llamagotchi agent control plane: the turn FSM            *)
(* (src/src/agent/fsm.ts), the effect executor that drives it              *)
(* (src/src/agent/session.ts), the store operations it uses                *)
(* (src/src/db/messages.ts), the context-pressure engine                   *)
(* (src/src/llm/client.ts, lines 247-340) and the sleep tool               *)
(* (src/unnamed/part_002).                                                 *)
(*                                                                         *)
(* Conventions.  A JavaScript value that may be absent is modelled by the  *)
(* empty value of its type: "" for an optional string, <<>> for an         *)
(* optional array or an optional object (a null usage is <<>>, a present   *)
(* one is <<u>>).  The delay 'infinite' is the sentinel Infinite.  Every   *)
(* read of Date.now() is the explicit argument `now`.                      *)
(***************************************************************************)
EXTENDS Integers, Sequences, FiniteSets, TLC

VARIABLES
    running,            \* session.ts:53
    state,              \* session.ts:54   the FSM state
    context,            \* session.ts:55   the FSM context (window, mode, ...)
    delayTimer,         \* session.ts:56   TRUE when the handle is non-null
    pendingInterrupt,   \* session.ts:57
    clock,              \* the wall clock read by Date.now()
    pendingDelayTimers, \* armed setTimeout callbacks of schedule_delay
    clearTimers,        \* due times of the armed callbacks that clear pendingInterrupt
    compactionTimers,   \* armed setTimeout callbacks of performCompaction
    streams,            \* model streams in flight (startStream awaiting)
    toolRun,            \* the executeToolsSequentially loops awaiting a tool
    log,                \* Store: the messages table
    sessions,           \* Store: the sessions table
    kv,                 \* Store: the state table (mode, delay)
    tasks,              \* Store: the background_tasks table
    sleepRun,           \* one invocation of the sleep tool
    timedRun,           \* tool invocations made with a timeout, and their work
    observer,           \* a WebSocket client: connected or not, frames sent to it
    reentered,          \* history: dispatch was entered while effects were executing
    savedByFsm,         \* history: save_message effects executed since boot
    received,           \* history: user messages delivered to the FSM, per content
    settingChanges,     \* history: set_mode / set_delay frames handled
    logAtBoot           \* history: rows the log held when the process started

vars == <<running, state, context, delayTimer, pendingInterrupt, clock,
          pendingDelayTimers, clearTimers, compactionTimers, streams, toolRun,
          log, sessions, kv, tasks, sleepRun, timedRun, observer, reentered,
          savedByFsm, received, settingChanges, logAtBoot>>

sessionVars == <<running, delayTimer, pendingInterrupt, pendingDelayTimers,
                 clearTimers, compactionTimers, streams, toolRun,
                 log, sessions, kv, observer, reentered, savedByFsm,
                 settingChanges, logAtBoot>>

(***************************************************************************)
(* Bounds of the model.                                                    *)
(***************************************************************************)
MaxClock == 1
MaxTurns == 3
MaxWindow == 4
MaxQueue == 2
MaxRespLen == 3

(***************************************************************************)
(* Values of the program.                                                  *)
(***************************************************************************)
Infinite == -1

Modes == {"conversational", "autonomous"}

Delays == {0, 5, Infinite}

UserContents == {"hi", "stop"}

ChatMsg(role, content) ==
    [role |-> role, content |-> content, tool_calls |-> <<>>, tool_call_id |-> ""]

ToolCall(id, name, arguments) ==
    [id |-> id, name |-> name, arguments |-> arguments]

EmptyResponse == [content |-> "", reasoning |-> ""]

createContext(initialMessages) ==
    [messages |-> initialMessages,
     mode |-> "conversational",
     delay |-> 5,
     queuedUserMessages |-> <<>>,
     consecutiveErrors |-> 0,
     turnNumber |-> 0,
     currentResponse |-> EmptyResponse]

AutonomousNudge ==
    "You are running in autonomous mode. Continue pursuing your own goals.\n\nWhat would you like to do next?"

RecoveryPrompt(error) ==
    "[System: The previous response caused an error: \"" \o error
        \o "\". Please try again with a simpler approach.]"

PauseNotice(n) ==
    "Too many consecutive errors (" \o ToString(n)
        \o "). Pausing. Send a message to resume."

formatExternalMessage(source, content) ==
    "[External message from " \o source \o "]\n" \o content

\* A faulty variant of the retry limit: the second error already pauses.
PauseAfterTwoErrors == 3 - 1

MaxConsecutiveErrors == 3

FsmMaxTokens == 128000

SaveMessage(source, content) ==
    [type |-> "save_message", source |-> source, content |-> content]

BroadcastMessage(source, content) ==
    [type |-> "broadcast_message", source |-> source, content |-> content]

CheckContextPressure == [type |-> "check_context_pressure"]

StartStream == [type |-> "start_stream"]

Idle == [type |-> "idle"]

Streaming(now) == [type |-> "streaming", streamId |-> now]

Result(s, c, e) == [state |-> s, context |-> c, effects |-> e]

(***************************************************************************)
(* Observers (server/websocket.ts).  A broadcast sends one frame to every  *)
(* connected client; the model follows one client.                         *)
(***************************************************************************)
NoObserver == [connected |-> FALSE, frames |-> <<>>]

broadcast(obs, frame) ==
    IF obs.connected THEN [obs EXCEPT !.frames = Append(@, frame)] ELSE obs

MessageFrame(row) == [type |-> "message", data |-> row]

TokenFrame(id, token) == [type |-> "token", id |-> id, token |-> token]

ReasoningFrame(id, reasoning) ==
    [type |-> "reasoning", id |-> id, reasoning |-> reasoning]

StateFrame(mode, delay) == [type |-> "state", mode |-> mode, delay |-> delay]

ContextPressureFrame(pressure) == [type |-> "context_pressure", data |-> pressure]

FsmStateFrame(fsmState, turnNumber) ==
    [type |-> "fsm_state", state |-> fsmState, turnNumber |-> turnNumber]

(***************************************************************************)
(* The FSM: transition and its handlers.                                   *)
(***************************************************************************)
RECURSIVE transition(_, _, _, _)

\* A faulty variant of enqueueUserMessage: the message is dropped.
dropUserMessage(ctx, content) == ctx

\* fsm.ts:400-407 and 460-466: a user message that arrives during a turn.
enqueueUserMessage(ctx, content) ==
    [ctx EXCEPT !.queuedUserMessages = Append(@, content)]

\* The level the FSM computes from the model's reported usage.
usageLevel(promptTokens) ==
    IF 10 * promptTokens >= 9 * FsmMaxTokens THEN "hard"
    ELSE IF 10 * promptTokens >= 7 * FsmMaxTokens THEN "soft"
    ELSE "normal"

\* A faulty variant of hasQueuedUserMessage: the tick never looks at the queue.
tickIgnoresQueue(ctx) == FALSE

\* fsm.ts:198: the tick's test for queued user messages.
hasQueuedUserMessage(ctx) == Len(ctx.queuedUserMessages) > 0

\* A faulty variant of tickRefused: a tick is taken in every mode.
tickNeverRefused(ctx) == FALSE

\* fsm.ts:193: the tick's test of the mode.
tickRefused(ctx) == ctx.mode # "autonomous"

handleIdle(ctx, event, effects, now) ==
    CASE event.type = "user_message" ->
            Result(Streaming(now),
                   [ctx EXCEPT
                       !.messages = Append(@, ChatMsg("user", event.content)),
                       !.consecutiveErrors = 0,
                       !.turnNumber = @ + 1,
                       !.currentResponse = EmptyResponse],
                   effects \o <<SaveMessage("user", event.content),
                                BroadcastMessage("user", event.content),
                                CheckContextPressure,
                                StartStream>>)
      [] event.type = "external_message" ->
            Result(Streaming(now),
                   [ctx EXCEPT
                       !.messages = Append(@, ChatMsg("user",
                           formatExternalMessage(event.source, event.content))),
                       !.consecutiveErrors = 0,
                       !.turnNumber = @ + 1,
                       !.currentResponse = EmptyResponse],
                   effects \o <<SaveMessage("external:" \o event.source, event.content),
                                BroadcastMessage("external:" \o event.source, event.content),
                                CheckContextPressure,
                                StartStream>>)
      [] event.type = "autonomous_tick" ->
            IF tickRefused(ctx)
            THEN Result(Idle, ctx, effects)
            ELSE IF hasQueuedUserMessage(ctx)
            THEN LET content == Head(ctx.queuedUserMessages)
                     rest == Tail(ctx.queuedUserMessages)
                 IN Result(Streaming(now),
                           [ctx EXCEPT
                               !.messages = Append(@, ChatMsg("user", content)),
                               !.queuedUserMessages = rest,
                               !.consecutiveErrors = 0,
                               !.turnNumber = @ + 1,
                               !.currentResponse = EmptyResponse],
                           effects \o <<SaveMessage("user", content),
                                        BroadcastMessage("user", content),
                                        CheckContextPressure,
                                        StartStream>>)
            ELSE Result(Streaming(now),
                        [ctx EXCEPT
                            !.messages = Append(@, ChatMsg("user", AutonomousNudge)),
                            !.turnNumber = @ + 1,
                            !.currentResponse = EmptyResponse],
                        effects \o <<CheckContextPressure, StartStream>>)
      [] event.type = "mode_changed" ->
            LET newContext == [ctx EXCEPT !.mode = event.mode]
            IN IF event.mode = "autonomous"
               THEN transition(Idle, newContext, [type |-> "autonomous_tick"], now)
               ELSE Result(Idle, newContext, effects)
      [] event.type = "delay_changed" ->
            Result(Idle, [ctx EXCEPT !.delay = event.delay], effects)
      [] OTHER ->
            \* fsm.ts:255 tests for user_message again; the first case took it.
            Result(Idle, ctx, effects)

\* A faulty variant of transitionToPostTurn: the mode is looked at before the queue.
transitionToPostTurnModeFirst(ctx, effects, now) ==
    IF ctx.mode = "conversational"
    THEN Result(Idle, ctx, effects)
    ELSE IF Len(ctx.queuedUserMessages) > 0
    THEN transition(Idle,
                    [ctx EXCEPT !.queuedUserMessages = Tail(@)],
                    [type |-> "user_message",
                     content |-> Head(ctx.queuedUserMessages)],
                    now)
    ELSE IF ctx.delay = Infinite
    THEN Result([type |-> "waiting_step"], ctx,
                Append(effects, [type |-> "wait_for_step"]))
    ELSE IF ctx.delay > 0
    THEN Result([type |-> "waiting_delay", delayMs |-> ctx.delay * 1000],
                ctx,
                Append(effects, [type |-> "schedule_delay",
                                 delayMs |-> ctx.delay * 1000]))
    ELSE transition(Idle, ctx, [type |-> "autonomous_tick"], now)

\* fsm.ts:555-584
transitionToPostTurn(ctx, effects, now) ==
    IF Len(ctx.queuedUserMessages) > 0
    THEN transition(Idle,
                    [ctx EXCEPT !.queuedUserMessages = Tail(@)],
                    [type |-> "user_message",
                     content |-> Head(ctx.queuedUserMessages)],
                    now)
    ELSE IF ctx.mode = "conversational"
    THEN Result(Idle, ctx, effects)
    ELSE IF ctx.delay = Infinite
    THEN Result([type |-> "waiting_step"], ctx,
                Append(effects, [type |-> "wait_for_step"]))
    ELSE IF ctx.delay > 0
    THEN Result([type |-> "waiting_delay", delayMs |-> ctx.delay * 1000],
                ctx,
                Append(effects, [type |-> "schedule_delay",
                                 delayMs |-> ctx.delay * 1000]))
    ELSE transition(Idle, ctx, [type |-> "autonomous_tick"], now)

streamEndEffects(ctx, event) ==
    (IF ctx.currentResponse.reasoning # ""
     THEN <<SaveMessage("reasoning", ctx.currentResponse.reasoning),
            BroadcastMessage("reasoning", ctx.currentResponse.reasoning)>>
     ELSE <<>>)
    \o (IF event.message.content # ""
        THEN <<SaveMessage("assistant", event.message.content),
               BroadcastMessage("assistant", event.message.content)>>
        ELSE <<>>)
    \o (IF event.usage # <<>>
        THEN <<[type |-> "update_context_pressure",
                tokens |-> event.usage[1].prompt_tokens,
                maxTokens |-> FsmMaxTokens,
                ratio |-> <<event.usage[1].prompt_tokens, FsmMaxTokens>>,
                level |-> usageLevel(event.usage[1].prompt_tokens)]>>
        ELSE <<>>)

handleStreaming(st, ctx, event, effects, now) ==
    CASE event.type = "stream_chunk" ->
            Result(st,
                   [ctx EXCEPT
                       !.currentResponse.content = @ \o event.content,
                       !.currentResponse.reasoning = @ \o event.reasoning],
                   effects
                   \o (IF event.content # ""
                       THEN <<[type |-> "emit_token", streamId |-> st.streamId,
                               token |-> event.content]>>
                       ELSE <<>>)
                   \o (IF event.reasoning # ""
                       THEN <<[type |-> "emit_reasoning", streamId |-> st.streamId,
                               reasoning |-> event.reasoning]>>
                       ELSE <<>>))
      [] event.type = "stream_end" ->
            LET newContext == [ctx EXCEPT
                                  !.messages = Append(@, event.message),
                                  !.consecutiveErrors = 0]
                eff == effects \o streamEndEffects(ctx, event)
            IN IF Len(event.message.tool_calls) > 0
               THEN Result([type |-> "executing_tools",
                            toolCalls |-> event.message.tool_calls,
                            currentIndex |-> 0],
                           newContext, eff)
               ELSE transitionToPostTurn(newContext, eff, now)
      [] event.type = "stream_error" ->
            LET newConsecutiveErrors == ctx.consecutiveErrors + 1
                eff == effects \o
                    <<[type |-> "log_error", error |-> event.error],
                      SaveMessage("system", "Error: " \o event.error),
                      BroadcastMessage("system", "Error: " \o event.error)>>
            IN IF newConsecutiveErrors < MaxConsecutiveErrors
               THEN Result(Streaming(now),
                           [ctx EXCEPT
                               !.messages = Append(@, ChatMsg("user",
                                                RecoveryPrompt(event.error))),
                               !.consecutiveErrors = newConsecutiveErrors,
                               !.currentResponse = EmptyResponse],
                           Append(eff, StartStream))
               ELSE Result(Idle,
                           [ctx EXCEPT !.consecutiveErrors = 0],
                           eff \o <<SaveMessage("system", PauseNotice(newConsecutiveErrors)),
                                    BroadcastMessage("system", PauseNotice(newConsecutiveErrors))>>)
      [] event.type = "user_message" ->
            Result(st,
                   enqueueUserMessage(ctx, event.content),
                   effects)
      [] event.type = "mode_changed" ->
            Result(st, [ctx EXCEPT !.mode = event.mode], effects)
      [] event.type = "delay_changed" ->
            Result(st, [ctx EXCEPT !.delay = event.delay], effects)
      [] OTHER -> Result(st, ctx, effects)

handleExecutingTools(st, ctx, event, effects, now) ==
    CASE event.type = "tool_result" ->
            LET newContext == [ctx EXCEPT
                    !.messages = Append(@,
                        [role |-> "tool", content |-> event.result,
                         tool_calls |-> <<>>, tool_call_id |-> event.toolCallId])]
                nextIndex == st.currentIndex + 1
            IN IF nextIndex < Len(st.toolCalls)
               THEN Result([st EXCEPT !.currentIndex = nextIndex],
                           newContext, effects)
               ELSE Result(Streaming(now),
                           [newContext EXCEPT !.currentResponse = EmptyResponse],
                           effects \o <<CheckContextPressure, StartStream>>)
      [] event.type = "user_message" ->
            Result(st,
                   enqueueUserMessage(ctx, event.content),
                   effects)
      [] event.type = "mode_changed" ->
            Result(st, [ctx EXCEPT !.mode = event.mode], effects)
      [] event.type = "delay_changed" ->
            Result(st, [ctx EXCEPT !.delay = event.delay], effects)
      [] OTHER -> Result(st, ctx, effects)

\* A faulty variant of handleWaitingDelay: the delay is kept on a change to
\* conversational mode.
handleWaitingDelayKeepsWaiting(st, ctx, event, effects, now) ==
    CASE event.type = "delay_elapsed" ->
            transition(Idle, ctx, [type |-> "autonomous_tick"], now)
      [] event.type = "user_message" ->
            transition(Idle, ctx, event, now)
      [] event.type = "mode_changed" ->
            Result(st, [ctx EXCEPT !.mode = event.mode], effects)
      [] event.type = "delay_changed" ->
            Result(st, [ctx EXCEPT !.delay = event.delay], effects)
      [] OTHER -> Result(st, ctx, effects)

\* fsm.ts:481-512
handleWaitingDelay(st, ctx, event, effects, now) ==
    CASE event.type = "delay_elapsed" ->
            transition(Idle, ctx, [type |-> "autonomous_tick"], now)
      [] event.type = "user_message" ->
            transition(Idle, ctx, event, now)
      [] event.type = "mode_changed" ->
            IF event.mode = "conversational"
            THEN Result(Idle, [ctx EXCEPT !.mode = event.mode], effects)
            ELSE Result(st, [ctx EXCEPT !.mode = event.mode], effects)
      [] event.type = "delay_changed" ->
            Result(st, [ctx EXCEPT !.delay = event.delay], effects)
      [] OTHER -> Result(st, ctx, effects)

handleWaitingStep(ctx, event, effects, now) ==
    CASE event.type = "step" ->
            transition(Idle, ctx, [type |-> "autonomous_tick"], now)
      [] event.type = "user_message" ->
            transition(Idle, ctx, event, now)
      [] event.type = "mode_changed" ->
            IF event.mode = "conversational"
            THEN Result(Idle, [ctx EXCEPT !.mode = event.mode], effects)
            ELSE Result([type |-> "waiting_step"],
                        [ctx EXCEPT !.mode = event.mode], effects)
      [] event.type = "delay_changed" ->
            LET newContext == [ctx EXCEPT !.delay = event.delay]
            IN IF event.delay # Infinite
               THEN Result([type |-> "waiting_delay", delayMs |-> event.delay * 1000],
                           newContext,
                           Append(effects, [type |-> "schedule_delay",
                                            delayMs |-> event.delay * 1000]))
               ELSE Result([type |-> "waiting_step"], newContext, effects)
      [] OTHER -> Result([type |-> "waiting_step"], ctx, effects)

transition(st, ctx, event, now) ==
    LET result ==
            CASE st.type = "idle" -> handleIdle(ctx, event, <<>>, now)
              [] st.type = "streaming" ->
                    handleStreaming(st, ctx, event, <<>>, now)
              [] st.type = "executing_tools" ->
                    handleExecutingTools(st, ctx, event, <<>>, now)
              [] st.type = "waiting_delay" ->
                    handleWaitingDelay(st, ctx, event, <<>>, now)
              [] st.type = "waiting_step" ->
                    handleWaitingStep(ctx, event, <<>>, now)
    IN IF result.state.type # st.type
       THEN [result EXCEPT !.effects = Append(@,
                [type |-> "broadcast_fsm_state",
                 fsmState |-> result.state.type,
                 turnNumber |-> result.context.turnNumber])]
       ELSE result

(***************************************************************************)
(* The events the FSM can be handed (fsm.ts:47-60), over small value sets. *)
(***************************************************************************)
SystemPrompt == "SYS"

ToolCalls1 == <<ToolCall("call_1", "filesystem", "{}")>>

ToolCalls2 == <<ToolCall("call_1", "filesystem", "{}"),
                ToolCall("call_2", "sleep", "{}")>>

AssistantMsg(content, toolCalls) ==
    [role |-> "assistant", content |-> content, tool_calls |-> toolCalls,
     tool_call_id |-> ""]

AssistantMessages ==
    {AssistantMsg("hello", <<>>), AssistantMsg("", <<>>),
     AssistantMsg("", ToolCalls1), AssistantMsg("hello", ToolCalls2)}

Usages == {<<>>, <<[prompt_tokens |-> 120000]>>}

Errors == {"boom"}

ToolResults == {"ok"}

UserMessageEvents == {[type |-> "user_message", content |-> c] : c \in UserContents}

StreamEndEvents ==
    {[type |-> "stream_end", message |-> m, usage |-> u] :
        m \in AssistantMessages, u \in Usages}

StreamErrorEvents == {[type |-> "stream_error", error |-> e] : e \in Errors}

StreamChunkEvents ==
    {[type |-> "stream_chunk", content |-> "he", reasoning |-> ""],
     [type |-> "stream_chunk", content |-> "", reasoning |-> "hm"]}

ToolResultEvents ==
    {[type |-> "tool_result", toolCallId |-> id, result |-> r] :
        id \in {"call_1", "call_2"}, r \in ToolResults}

ModeChangedEvents == {[type |-> "mode_changed", mode |-> m] : m \in Modes}

DelayChangedEvents == {[type |-> "delay_changed", delay |-> d] : d \in Delays}

ExternalMessageEvents ==
    {[type |-> "external_message", source |-> "cron", content |-> "tick"]}

Events ==
    UserMessageEvents \cup ExternalMessageEvents \cup StreamEndEvents
    \cup StreamErrorEvents \cup StreamChunkEvents \cup ToolResultEvents
    \cup ModeChangedEvents \cup DelayChangedEvents
    \cup {[type |-> t] : t \in {"autonomous_tick", "all_tools_complete",
                                 "step", "delay_elapsed"}}
    \cup {[type |-> "stream_start", streamId |-> t] : t \in 0..MaxClock}

InBounds(ctx) ==
    /\ Len(ctx.messages) <= MaxWindow
    /\ ctx.turnNumber <= MaxTurns
    /\ Len(ctx.queuedUserMessages) <= MaxQueue
    /\ Len(ctx.currentResponse.content) + Len(ctx.currentResponse.reasoning)
          <= MaxRespLen

(***************************************************************************)
(* SpecFsm: the transition function driven by arbitrary event sequences,   *)
(* no executor.  Every call reads the clock that Tick advances.            *)
(***************************************************************************)
FsmInit ==
    /\ running = TRUE
    /\ state = Idle
    /\ context = createContext(<<ChatMsg("system", SystemPrompt)>>)
    /\ clock = 0
    /\ received = [c \in UserContents |-> 0]
    /\ settingChanges = 0
    /\ logAtBoot = 0
    /\ delayTimer = FALSE
    /\ pendingInterrupt = FALSE
    /\ pendingDelayTimers = 0
    /\ clearTimers = <<>>
    /\ compactionTimers = 0
    /\ streams = <<>>
    /\ toolRun = <<>>
    /\ log = <<>>
    /\ sessions = <<>>
    /\ kv = [mode |-> "conversational", delay |-> 5]
    /\ tasks = <<>>
    /\ sleepRun = <<>>
    /\ timedRun = <<>>
    /\ observer = NoObserver
    /\ reentered = FALSE
    /\ savedByFsm = 0

Deliver(ev) ==
    LET r == transition(state, context, ev, clock)
    IN /\ InBounds(r.context)
       /\ state' = r.state
       /\ context' = r.context
       /\ received' = IF ev.type = "user_message"
                      THEN [received EXCEPT ![ev.content] = @ + 1]
                      ELSE received
       /\ UNCHANGED <<clock, tasks, sleepRun, timedRun, sessionVars>>

FsmUserMessage == \E ev \in UserMessageEvents : Deliver(ev)

FsmExternalMessage == \E ev \in ExternalMessageEvents : Deliver(ev)

FsmAutonomousTick == Deliver([type |-> "autonomous_tick"])

FsmStreamStart == Deliver([type |-> "stream_start", streamId |-> clock])

FsmStreamChunk == \E ev \in StreamChunkEvents : Deliver(ev)

FsmStreamEnd == \E ev \in StreamEndEvents : Deliver(ev)

FsmStreamError == \E ev \in StreamErrorEvents : Deliver(ev)

FsmToolResult == \E ev \in ToolResultEvents : Deliver(ev)

FsmAllToolsComplete == Deliver([type |-> "all_tools_complete"])

FsmModeChanged == \E ev \in ModeChangedEvents : Deliver(ev)

FsmDelayChanged == \E ev \in DelayChangedEvents : Deliver(ev)

FsmStep == Deliver([type |-> "step"])

FsmDelayElapsed == Deliver([type |-> "delay_elapsed"])

Tick ==
    /\ clock < MaxClock
    /\ clock' = clock + 1
    /\ UNCHANGED <<state, context, received, tasks, sleepRun, timedRun, sessionVars>>

FsmNext ==
    \/ FsmUserMessage
    \/ FsmExternalMessage
    \/ FsmAutonomousTick
    \/ FsmStreamStart
    \/ FsmStreamChunk
    \/ FsmStreamEnd
    \/ FsmStreamError
    \/ FsmToolResult
    \/ FsmAllToolsComplete
    \/ FsmModeChanged
    \/ FsmDelayChanged
    \/ FsmStep
    \/ FsmDelayElapsed
    \/ Tick

SpecFsm == FsmInit /\ [][FsmNext]_vars

(***************************************************************************)
(* The Store (db/messages.ts).  A message row is its id, source, content,  *)
(* tool_name and tool_input; a session row is its id, handoff_summary and  *)
(* whether ended_at is set.                                                *)
(***************************************************************************)
Last(s) == s[Len(s)]

\* F applied to the value of v, which is computed once.
Strict(v, F(_)) == CHOOSE r \in {F(x) : x \in {v}} : TRUE

RemoveAt(s, i) == SubSeq(s, 1, i - 1) \o SubSeq(s, i + 1, Len(s))

addMessage(messages, source, content, toolName, toolInput) ==
    Append(messages,
           [id |-> Len(messages) + 1, source |-> source, content |-> content,
            tool_name |-> toolName, tool_input |-> toolInput])

OpenSessionIds(rows) == {i \in 1..Len(rows) : ~rows[i].ended}

\* SELECT * FROM sessions WHERE ended_at IS NULL ORDER BY id DESC LIMIT 1
getCurrentSession(rows) ==
    IF OpenSessionIds(rows) = {} THEN <<>>
    ELSE <<rows[CHOOSE i \in OpenSessionIds(rows) :
                    \A j \in OpenSessionIds(rows) : j <= i]>>

startSession(rows, handoffSummary) ==
    Append(rows, [id |-> Len(rows) + 1,
                  handoff_summary |-> handoffSummary,
                  ended |-> FALSE])

\* A faulty variant of endCurrentSession: the open session is left open.
leaveSessionOpen(rows) == rows

endCurrentSession(rows) ==
    IF getCurrentSession(rows) = <<>> THEN rows
    ELSE [rows EXCEPT ![getCurrentSession(rows)[1].id].ended = TRUE]

(***************************************************************************)
(* Context pressure and compaction (llm/client.ts:247-340).  The ratio     *)
(* tokens / C is compared with 0.7, 0.9 and 1.1 in integers, which agrees  *)
(* with the floating-point comparison for the sizes used here.             *)
(***************************************************************************)
ContextSize == 1000

SummarizeOver == 500

SummaryKeep == 200

KeepRecent == 10

estimateTokens(text) == (Len(text) + 3) \div 4

RECURSIVE toolCallTokens(_)
toolCallTokens(tcs) ==
    IF tcs = <<>> THEN 0
    ELSE estimateTokens(Head(tcs).name) + estimateTokens(Head(tcs).arguments)
            + toolCallTokens(Tail(tcs))

estimateMessageTokens(m) ==
    estimateTokens(m.content) + toolCallTokens(m.tool_calls) + 4

RECURSIVE estimateTotalTokens(_)
estimateTotalTokens(messages) ==
    IF messages = <<>> THEN 0
    ELSE estimateMessageTokens(Head(messages)) + estimateTotalTokens(Tail(messages))

\* A faulty variant of pressureLevel: a ratio on a limit falls in the lower level.
pressureLevelStrict(tokens, size) ==
    IF 10 * tokens > 11 * size THEN "overflow"
    ELSE IF 10 * tokens > 9 * size THEN "hard"
    ELSE IF 10 * tokens > 7 * size THEN "soft"
    ELSE "normal"

\* tokens / size compared with 0.7, 0.9 and 1.1: for integers below 2^53 the
\* double quotient is at or above the double of a limit exactly when the
\* rational quotient is at or above the limit.
pressureLevel(tokens, size) ==
    IF 10 * tokens >= 11 * size THEN "overflow"
    ELSE IF 10 * tokens >= 9 * size THEN "hard"
    ELSE IF 10 * tokens >= 7 * size THEN "soft"
    ELSE "normal"

getContextPressure(messages) ==
    LET tokens == estimateTotalTokens(messages)
    IN [tokens |-> tokens,
        ratio |-> <<tokens, ContextSize>>,
        level |-> pressureLevel(tokens, ContextSize)]

\* A faulty variant of summarizeMessage: the summary keeps the whole content.
summarizeMessageWhole(m) ==
    IF m.role = "tool" /\ Len(m.content) > SummarizeOver
    THEN [m EXCEPT !.content =
            "[Summarized tool result: " \o m.content
                \o "... (" \o ToString(Len(m.content)) \o " chars total)]"]
    ELSE m

\* A faulty variant of summarizeMessage: the summary is a new tool message
\* that does not carry the tool_call_id over.
summarizeMessageLosingId(m) ==
    IF m.role = "tool" /\ Len(m.content) > SummarizeOver
    THEN [ChatMsg("tool",
            "[Summarized tool result: " \o SubSeq(m.content, 1, SummaryKeep)
                \o "... (" \o ToString(Len(m.content)) \o " chars total)]")
          EXCEPT !.tool_call_id = ""]
    ELSE m

\* client.ts:297-309
summarizeMessage(m) ==
    IF m.role = "tool" /\ Len(m.content) > SummarizeOver
    THEN [m EXCEPT !.content =
            "[Summarized tool result: " \o SubSeq(m.content, 1, SummaryKeep)
                \o "... (" \o ToString(Len(m.content)) \o " chars total)]"]
    ELSE m

compactMessages(messages) ==
    [i \in 1..Len(messages) |->
        IF i - 1 < Len(messages) - KeepRecent
        THEN summarizeMessage(messages[i])
        ELSE messages[i]]

CountRole(messages, role) ==
    Cardinality({i \in 1..Len(messages) : messages[i].role = role})

createHandoffSummary(messages) ==
    "Session Summary:\n- Total messages: " \o ToString(Len(messages))
        \o "\n- Assistant turns: " \o ToString(CountRole(messages, "assistant"))
        \o "\n- Tool uses: " \o ToString(CountRole(messages, "tool"))
        \o "\n\nRecent context: The agent was engaged in conversation and tool use."

formatSessionHandoff(summary) ==
    "[Session Handoff]\nThis is a continuation of a previous session. Here's the context from before:\n\n"
        \o summary
        \o "\n\nYou may continue from where you left off or start fresh."

WarningContent ==
    "[System Notice] Context pressure is becoming critical. You should persist any important information now using your tools (filesystem, notable) before context compaction occurs."

DividerContent(id) == "--- Session " \o ToString(id) \o " ---"

(***************************************************************************)
(* Rebuilding the window from the Store (session.ts:63-124).               *)
(***************************************************************************)
IsExternalSource(source) ==
    Len(source) >= 9 /\ SubSeq(source, 1, 9) = "external:"

\* <<>> when the row has no place in the window, <<m>> otherwise.
dbToChat(dbMsg) ==
    CASE dbMsg.source = "user" -> <<ChatMsg("user", dbMsg.content)>>
      [] dbMsg.source = "assistant" ->
            IF dbMsg.tool_name # "" /\ dbMsg.tool_input # ""
            THEN <<AssistantMsg(dbMsg.content,
                                <<ToolCall(dbMsg.tool_name, dbMsg.tool_name,
                                           dbMsg.tool_input)>>)>>
            ELSE <<AssistantMsg(dbMsg.content, <<>>)>>
      [] dbMsg.source = "system" -> <<ChatMsg("system", dbMsg.content)>>
      [] dbMsg.source = "tool_result" ->
            <<[role |-> "tool", content |-> dbMsg.content, tool_calls |-> <<>>,
               tool_call_id |-> dbMsg.tool_name]>>
      [] OTHER ->
            IF IsExternalSource(dbMsg.source)
            THEN <<ChatMsg("user",
                     formatExternalMessage(
                         SubSeq(dbMsg.source, 10, Len(dbMsg.source)),
                         dbMsg.content))>>
            ELSE <<>>

RECURSIVE dbRowsToChat(_)
dbRowsToChat(rows) ==
    IF rows = <<>> THEN <<>>
    ELSE dbToChat(Head(rows)) \o dbRowsToChat(Tail(rows))

loadHistory(messages, rows) ==
    <<ChatMsg("system", SystemPrompt)>>
    \o (IF getCurrentSession(rows) # <<>>
           /\ getCurrentSession(rows)[1].handoff_summary # ""
        THEN <<ChatMsg("system",
                 formatSessionHandoff(getCurrentSession(rows)[1].handoff_summary))>>
        ELSE <<>>)
    \o dbRowsToChat(messages)

(***************************************************************************)
(* The effect executor (session.ts:130-345).  S is the record of the       *)
(* session's fields and of the Store; dispatch, executeEffect and          *)
(* startStream are the functions of those names, run to their first await. *)
(***************************************************************************)
FsmOnlySources == {"user", "assistant", "reasoning"}

\* The model's replies: what a stream delivers, chunk by chunk.
ContentChunk(text) == [type |-> "stream_chunk", content |-> text, reasoning |-> ""]

ReasoningChunk(text) == [type |-> "stream_chunk", content |-> "", reasoning |-> text]

Scripts ==
    {<<>>,
     <<ReasoningChunk("hm"), ContentChunk("hel"), ContentChunk("lo")>>}

IsPrefix(p, s) == Len(p) <= Len(s) /\ SubSeq(s, 1, Len(p)) = p

NewStream == [sent |-> <<>>, content |-> ""]

RECURSIVE dispatch(_, _)

startStream(S) ==
    LET S1 == dispatch(S, [type |-> "stream_start", streamId |-> S.clock])
    IN [S1 EXCEPT !.streams = Append(@, NewStream)]

\* A faulty variant of performCompaction: the new window lacks the handoff block.
performCompactionWithoutHandoff(S) ==
    LET summary == createHandoffSummary(S.context.messages)
        rows == startSession(endCurrentSession(S.sessions), summary)
    IN [S EXCEPT
          !.sessions = rows,
          !.context.messages = <<ChatMsg("system", SystemPrompt)>>,
          !.log = addMessage(@, "system", DividerContent(Last(rows).id), "", ""),
          !.observer = broadcast(@, MessageFrame(
              Last(addMessage(S.log, "system", DividerContent(Last(rows).id), "", ""))))]

\* A faulty variant of performCompaction: the new session is started before
\* the current one is ended.
performCompactionStartFirst(S) ==
    LET summary == createHandoffSummary(S.context.messages)
        rows == endCurrentSession(startSession(S.sessions, summary))
    IN [S EXCEPT
          !.sessions = rows,
          !.context.messages = <<ChatMsg("system", SystemPrompt),
                                 ChatMsg("system", formatSessionHandoff(summary))>>,
          !.log = addMessage(@, "system", DividerContent(Last(rows).id), "", ""),
          !.observer = broadcast(@, MessageFrame(
              Last(addMessage(S.log, "system", DividerContent(Last(rows).id), "", ""))))]

performCompaction(S) ==
    LET summary == createHandoffSummary(S.context.messages)
        rows == startSession(endCurrentSession(S.sessions), summary)
    IN [S EXCEPT
          !.sessions = rows,
          !.context.messages = <<ChatMsg("system", SystemPrompt),
                                 ChatMsg("system", formatSessionHandoff(summary))>>,
          !.log = addMessage(@, "system", DividerContent(Last(rows).id), "", ""),
          !.observer = broadcast(@, MessageFrame(
              Last(addMessage(S.log, "system", DividerContent(Last(rows).id), "", ""))))]

softCompact(messages) ==
    <<messages[1]>> \o compactMessages(Tail(messages))

checkAndHandleContextPressure(S) ==
    LET pressure == getContextPressure(S.context.messages)
        S1 == [S EXCEPT !.observer = broadcast(@,
                  ContextPressureFrame([tokens |-> pressure.tokens,
                                        maxTokens |-> ContextSize,
                                        ratio |-> pressure.ratio,
                                        level |-> pressure.level]))]
    IN IF pressure.level = "hard"
       THEN [S1 EXCEPT
               !.log = addMessage(@, "system", WarningContent, "", ""),
               !.observer = broadcast(@, MessageFrame(
                   Last(addMessage(S.log, "system", WarningContent, "", "")))),
               !.context.messages = Append(@, ChatMsg("system", WarningContent)),
               !.compactionTimers = @ + 1]
       ELSE IF pressure.level = "soft"
       THEN [S1 EXCEPT !.context.messages = softCompact(@)]
       ELSE S1

\* A faulty variant of scheduleDelay: the timer armed before is not cleared.
scheduleDelayKeepsOld(S) ==
    [S EXCEPT !.pendingDelayTimers = @ + 1, !.delayTimer = TRUE]

\* A faulty variant of scheduleDelay: no timer is armed.
scheduleDelayUnarmed(S) == S

\* session.ts:187-193
scheduleDelay(S) ==
    [S EXCEPT !.pendingDelayTimers = (IF S.delayTimer THEN @ - 1 ELSE @) + 1,
              !.delayTimer = TRUE]

executeEffect(S, effect) ==
    CASE effect.type = "start_stream" -> startStream(S)
      [] effect.type = "save_message" ->
            [S EXCEPT
               !.log = addMessage(@, effect.source, effect.content, "", ""),
               !.savedByFsm = IF effect.source \in FsmOnlySources THEN @ + 1 ELSE @]
      [] effect.type = "broadcast_message" ->
            [S EXCEPT
               !.log = addMessage(@, effect.source, effect.content, "", ""),
               !.observer = broadcast(@, MessageFrame(
                   Last(addMessage(S.log, effect.source, effect.content, "", ""))))]
      [] effect.type = "emit_token" ->
            [S EXCEPT !.observer =
                broadcast(@, TokenFrame(effect.streamId, effect.token))]
      [] effect.type = "emit_reasoning" ->
            [S EXCEPT !.observer =
                broadcast(@, ReasoningFrame(effect.streamId, effect.reasoning))]
      [] effect.type = "update_context_pressure" ->
            [S EXCEPT !.observer =
                broadcast(@, ContextPressureFrame(
                    [tokens |-> effect.tokens, maxTokens |-> effect.maxTokens,
                     ratio |-> effect.ratio, level |-> effect.level]))]
      [] effect.type = "broadcast_fsm_state" ->
            [S EXCEPT !.observer =
                broadcast(@, FsmStateFrame(effect.fsmState, effect.turnNumber))]
      [] effect.type = "schedule_delay" -> scheduleDelay(S)
      [] effect.type = "check_context_pressure" -> checkAndHandleContextPressure(S)
      [] OTHER -> S   \* console output, wait_for_step

RECURSIVE executeEffects(_, _)
executeEffects(S, effects) ==
    IF effects = <<>> THEN S
    ELSE Strict(executeEffect(S, Head(effects)),
                LAMBDA S1 : executeEffects(S1, Tail(effects)))

\* executing counts the effect loops (session.ts:138-140) that have not
\* returned yet; it is 0 whenever the event loop hands out the next callback.
dispatch(S, event) ==
    IF ~S.running /\ event.type # "user_message" THEN S
    ELSE Strict(transition(S.state, S.context, event, S.clock), LAMBDA r :
            Strict([S EXCEPT !.state = r.state,
                             !.context = r.context,
                             !.reentered = @ \/ S.executing > 0,
                             !.executing = @ + 1], LAMBDA S0 :
                [executeEffects(S0, r.effects) EXCEPT !.executing = @ - 1]))

\* JSON.stringify(JSON.parse(jsonrepair(arguments)), null, 2) on the arguments used.
toolInputJson(arguments) ==
    IF arguments \in {"", "{", "{}"} THEN "{}" ELSE arguments

\* A loop that invokes the tool without recording the call.
beginToolCallUnlogged(S, toolCall) == S

\* One iteration of executeToolsSequentially up to its await (session.ts:257-280).
beginToolCall(S, toolCall) ==
    LET rows == addMessage(S.log, "tool_call", "Calling " \o toolCall.name,
                           toolCall.name, toolInputJson(toolCall.arguments))
    IN [S EXCEPT !.log = rows,
                 !.observer = broadcast(@, MessageFrame(Last(rows)))]

(***************************************************************************)
(* Spec: the process from main's bootstrap on.  main registers the         *)
(* Gateway's handler and calls start() without yielding, so no frame is    *)
(* handled before start(); stop() is called nowhere in the repository and  *)
(* has no action.                                                          *)
(***************************************************************************)
MaxLog == 8
MaxSessionWindow == 7
MaxSessionTurns == 2
MaxTimers == 2
MaxClearTimers == 1
MaxSettingChanges == 1
MaxInjects == 1

ClearDelayMs == 100

SessionContents == {"hi"}

Cur ==
    [running |-> running, state |-> state, context |-> context,
     delayTimer |-> delayTimer, pendingDelayTimers |-> pendingDelayTimers,
     compactionTimers |-> compactionTimers, streams |-> streams,
     toolRun |-> toolRun, log |-> log, sessions |-> sessions,
     savedByFsm |-> savedByFsm, clock |-> clock, observer |-> observer,
     reentered |-> reentered, executing |-> 0]

SessionInBounds(S) ==
    /\ Len(S.context.messages) <= logAtBoot + MaxSessionWindow
    /\ S.context.turnNumber <= MaxSessionTurns
    /\ Len(S.context.queuedUserMessages) <= MaxQueue
    /\ Len(S.log) <= logAtBoot + MaxLog
    /\ S.compactionTimers <= MaxTimers

Commit(S) ==
    \E T \in {S} :
        /\ SessionInBounds(T)
        /\ running' = T.running
        /\ state' = T.state
        /\ context' = T.context
        /\ delayTimer' = T.delayTimer
        /\ pendingDelayTimers' = T.pendingDelayTimers
        /\ compactionTimers' = T.compactionTimers
        /\ streams' = T.streams
        /\ toolRun' = T.toolRun
        /\ log' = T.log
        /\ sessions' = T.sessions
        /\ savedByFsm' = T.savedByFsm
        /\ observer' = T.observer
        /\ reentered' = T.reentered

\* part_004:19-25: resume the open session or start one.
bootstrap(rows) ==
    IF getCurrentSession(rows) = <<>> THEN startSession(rows, "") ELSE rows

LogRow(id, source, content, toolName) ==
    [id |-> id, source |-> source, content |-> content, tool_name |-> toolName,
     tool_input |-> ""]

PriorSummary ==
    "Session Summary:\n- Total messages: 4\n- Assistant turns: 1\n- Tool uses: 0\n\nRecent context: The agent was engaged in conversation and tool use."

RECURSIVE Repeat(_, _)
Repeat(s, n) ==
    IF n = 0 THEN ""
    ELSE IF n % 2 = 0 THEN LET h == Repeat(s, n \div 2) IN h \o h
    ELSE s \o Repeat(s, n - 1)

\* Rows an earlier run wrote: every message of the FSM twice, a tool call and
\* its long result, then three further exchanges.
LongToolLog ==
    <<LogRow(1, "user", "hi", ""), LogRow(2, "user", "hi", ""),
      [LogRow(3, "tool_call", "Calling filesystem", "filesystem") EXCEPT
          !.tool_input = "{}"],
      LogRow(4, "tool_result", Repeat("x", 2560), "call_1")>>
    \o [i \in 1..10 |-> IF (i - 1) % 4 < 2 THEN LogRow(i + 4, "assistant", "hello", "")
                        ELSE LogRow(i + 4, "user", "hi", "")]

\* Rows of a run that went through one hard compaction and a long answer.
CompactedLog ==
    <<LogRow(1, "user", "hi", ""), LogRow(2, "user", "hi", ""),
      LogRow(3, "system", WarningContent, ""),
      LogRow(4, "system", DividerContent(2), ""),
      LogRow(5, "assistant", Repeat("y", 1480), ""),
      LogRow(6, "assistant", Repeat("y", 1480), "")>>

\* Rows of a run in which the model gave one long answer.
OverflowLog ==
    <<LogRow(1, "user", "hi", ""), LogRow(2, "user", "hi", ""),
      LogRow(3, "assistant", Repeat("z", 2200), ""),
      LogRow(4, "assistant", Repeat("z", 2200), "")>>

\* What an earlier run of the program may have left in the Store.
InitialDbs ==
    {[sessions |-> <<>>, log |-> <<>>, mode |-> "conversational"],
     [sessions |-> <<[id |-> 1, handoff_summary |-> "", ended |-> FALSE]>>,
      log |-> LongToolLog, mode |-> "conversational"],
     [sessions |-> <<[id |-> 1, handoff_summary |-> "", ended |-> TRUE],
                     [id |-> 2, handoff_summary |-> PriorSummary, ended |-> FALSE]>>,
      log |-> CompactedLog, mode |-> "conversational"],
     [sessions |-> <<[id |-> 1, handoff_summary |-> "", ended |-> FALSE]>>,
      log |-> OverflowLog, mode |-> "conversational"],
     [sessions |-> <<[id |-> 1, handoff_summary |-> "", ended |-> TRUE]>>,
      log |-> <<>>, mode |-> "autonomous"]}

Init ==
    /\ running = FALSE
    /\ state = Idle
    /\ context = createContext(<<>>)
    /\ delayTimer = FALSE
    /\ pendingInterrupt = FALSE
    /\ clock = 0
    /\ pendingDelayTimers = 0
    /\ clearTimers = <<>>
    /\ compactionTimers = 0
    /\ streams = <<>>
    /\ toolRun = <<>>
    /\ \E db \in InitialDbs :
          /\ log = db.log
          /\ sessions = db.sessions
          /\ savedByFsm = 0
          /\ kv = [mode |-> db.mode, delay |-> 5]
          /\ logAtBoot = Len(db.log)
    /\ tasks = <<>>
    /\ sleepRun = <<>>
    /\ timedRun = <<>>
    /\ observer = NoObserver
    /\ reentered = FALSE
    /\ received = [c \in UserContents |-> 0]
    /\ settingChanges = 0

\* main (part_004:19-34) up to its return: bootstrap of the current session,
\* construction of the agent session and start() (session.ts:379-401).
Start ==
    /\ ~running
    /\ LET rows == bootstrap(sessions)
           S0 == [Cur EXCEPT
                    !.running = TRUE,
                    !.sessions = rows,
                    !.context = [createContext(loadHistory(log, rows)) EXCEPT
                                    !.mode = kv.mode, !.delay = kv.delay]]
       IN Commit(IF S0.context.mode = "autonomous"
                 THEN dispatch(S0, [type |-> "autonomous_tick"])
                 ELSE S0)
    /\ UNCHANGED <<pendingInterrupt, clearTimers, clock, kv, tasks, sleepRun, timedRun, received,
                   settingChanges, logAtBoot>>

\* session.ts:413-421.  The Gateway hands frames over once main has started
\* the session (part_004:30-34 runs without yielding).
handleUserMessage(maxTimers) ==
    /\ running
    /\ \E c \in SessionContents :
          /\ Commit(dispatch(Cur, [type |-> "user_message", content |-> c]))
          /\ received' = [received EXCEPT ![c] = @ + 1]
    /\ pendingInterrupt' = TRUE
    /\ Len(clearTimers) < maxTimers
    /\ clearTimers' = Append(clearTimers, clock + ClearDelayMs)
    /\ UNCHANGED <<clock, kv, tasks, sleepRun, timedRun, settingChanges, logAtBoot>>

UserMessage == handleUserMessage(MaxClearTimers)

\* session.ts:416-418.  Spec does not measure durations: an armed timer
\* fires at some later step.
ClearTimerFires ==
    /\ \E i \in 1..Len(clearTimers) : clearTimers' = RemoveAt(clearTimers, i)
    /\ pendingInterrupt' = FALSE
    /\ UNCHANGED <<running, state, context, delayTimer, clock, pendingDelayTimers,
                   compactionTimers, streams, toolRun, log, sessions, kv, tasks,
                   sleepRun, timedRun, observer, reentered, savedByFsm, received,
                   settingChanges, logAtBoot>>

\* session.ts:423-425
Step ==
    /\ running
    /\ Commit(dispatch(Cur, [type |-> "step"]))
    /\ UNCHANGED <<pendingInterrupt, clearTimers, clock, kv, tasks, sleepRun, timedRun, received,
                   settingChanges, logAtBoot>>

\* server/index.ts:78-91
SetMode ==
    /\ running
    /\ settingChanges < MaxSettingChanges
    /\ settingChanges' = settingChanges + 1
    /\ \E m \in Modes :
          /\ m # kv.mode
          /\ kv' = [kv EXCEPT !.mode = m]
          /\ observer' = broadcast(observer, StateFrame(m, kv.delay))
    /\ UNCHANGED <<running, state, context, delayTimer, pendingInterrupt, clock,
                   pendingDelayTimers, clearTimers, compactionTimers, streams,
                   toolRun, log, sessions, tasks, sleepRun, timedRun, reentered,
                   savedByFsm, received, logAtBoot>>

SetDelay ==
    /\ running
    /\ settingChanges < MaxSettingChanges
    /\ settingChanges' = settingChanges + 1
    /\ \E d \in Delays :
          /\ d # kv.delay
          /\ kv' = [kv EXCEPT !.delay = d]
          /\ observer' = broadcast(observer, StateFrame(kv.mode, d))
    /\ UNCHANGED <<running, state, context, delayTimer, pendingInterrupt, clock,
                   pendingDelayTimers, clearTimers, compactionTimers, streams,
                   toolRun, log, sessions, tasks, sleepRun, timedRun, reentered,
                   savedByFsm, received, logAtBoot>>

\* server/routes.ts:30-52: POST /api/inject with an accepted body.  A source
\* that does not start with "external:" is answered 400 and changes nothing.
handleInject(rows, source, content) ==
    IF source = "" \/ content = "" \/ ~IsExternalSource(source) THEN rows
    ELSE addMessage(rows, source, content, "", "")

InjectSources == {"external:cron", "cron"}

ExternalRowsSinceBoot ==
    Cardinality({i \in (logAtBoot + 1)..Len(log) : IsExternalSource(log[i].source)})

Inject ==
    /\ running
    /\ ExternalRowsSinceBoot < MaxInjects
    /\ Len(log) < logAtBoot + MaxLog
    /\ \E source \in InjectSources :
          /\ handleInject(log, source, "tick") # log
          /\ log' = handleInject(log, source, "tick")
          /\ observer' = broadcast(observer, MessageFrame(Last(handleInject(log, source, "tick"))))
    /\ UNCHANGED <<running, state, context, delayTimer, pendingInterrupt, clock,
                   pendingDelayTimers, clearTimers, compactionTimers, streams,
                   toolRun, sessions, kv, tasks, sleepRun, timedRun, reentered,
                   savedByFsm, received, settingChanges, logAtBoot>>

\* session.ts:351-372: one pass of the polling loop.
syncStateFromDb(S) ==
    LET S1 == IF kv.mode # S.context.mode
              THEN dispatch(S, [type |-> "mode_changed", mode |-> kv.mode])
              ELSE S
    IN IF kv.delay # S1.context.delay
       THEN dispatch(S1, [type |-> "delay_changed", delay |-> kv.delay])
       ELSE S1

SyncStateFromDb ==
    /\ running
    /\ kv.mode # context.mode \/ kv.delay # context.delay
    /\ Commit(syncStateFromDb(Cur))
    /\ UNCHANGED <<pendingInterrupt, clearTimers, clock, kv, tasks, sleepRun, timedRun, received,
                   settingChanges, logAtBoot>>

\* A faulty variant of WithoutStream: the stream whose end or error is
\* dispatched is still open.
WithoutStreamStillOpen(S, i) == S

\* session.ts:224-248: the stream has returned or thrown.
WithoutStream(S, i) == [S EXCEPT !.streams = RemoveAt(@, i)]

\* session.ts:228-235: the stream's callback.
StreamChunk ==
    /\ \E i \in 1..Len(streams) : \E script \in Scripts :
          /\ IsPrefix(streams[i].sent, script)
          /\ Len(script) > Len(streams[i].sent)
          /\ LET chunk == script[Len(streams[i].sent) + 1]
                 S1 == [Cur EXCEPT
                          !.streams[i].sent = Append(@, chunk),
                          !.streams[i].content = @ \o chunk.content]
             IN Commit(dispatch(S1, chunk))
    /\ UNCHANGED <<pendingInterrupt, clearTimers, clock, kv, tasks, sleepRun, timedRun, received,
                   settingChanges, logAtBoot>>

\* session.ts:238-243: the stream returns; the tool loop runs to its first await.
streamEnd(S, message, usage) ==
    LET S1 == dispatch(S, [type |-> "stream_end", message |-> message,
                           usage |-> usage])
    IN IF Len(message.tool_calls) > 0 /\ S1.state.type = "executing_tools"
       THEN [beginToolCall(S1, message.tool_calls[1]) EXCEPT
                !.toolRun = Append(@, [toolCalls |-> message.tool_calls,
                                       index |-> 1])]
       ELSE S1

StreamEnd ==
    /\ \E i \in 1..Len(streams) :
          /\ streams[i].sent \in Scripts
          /\ \E tcs \in {<<>>, ToolCalls2}, usage \in Usages :
                Commit(streamEnd(WithoutStream(Cur, i),
                                 AssistantMsg(streams[i].content, tcs), usage))
    /\ UNCHANGED <<pendingInterrupt, clearTimers, clock, kv, tasks, sleepRun, timedRun, received,
                   settingChanges, logAtBoot>>

\* session.ts:244-247
StreamError ==
    /\ \E i \in 1..Len(streams) : \E e \in Errors :
          Commit(dispatch(WithoutStream(Cur, i),
                          [type |-> "stream_error", error |-> e]))
    /\ UNCHANGED <<pendingInterrupt, clearTimers, clock, kv, tasks, sleepRun, timedRun, received,
                   settingChanges, logAtBoot>>

\* session.ts:278-288 and the next iteration up to its await.
toolReturn(S, i, result) ==
    LET run == S.toolRun[i]
        toolCall == run.toolCalls[run.index]
        rows == addMessage(S.log, "tool_result", result, toolCall.id, "")
        S1 == [S EXCEPT !.log = rows,
                        !.observer = broadcast(@, MessageFrame(Last(rows)))]
        S2 == dispatch(S1, [type |-> "tool_result", toolCallId |-> toolCall.id,
                            result |-> result])
    IN IF run.index < Len(run.toolCalls)
       THEN [beginToolCall(S2, run.toolCalls[run.index + 1]) EXCEPT
                !.toolRun[i].index = @ + 1]
       ELSE [S2 EXCEPT !.toolRun = RemoveAt(@, i)]

ToolReturn ==
    /\ \E i \in 1..Len(toolRun) : \E result \in ToolResults :
          Commit(toolReturn(Cur, i, result))
    /\ UNCHANGED <<pendingInterrupt, clearTimers, clock, kv, tasks, sleepRun, timedRun, received,
                   settingChanges, logAtBoot>>

\* session.ts:189-192
DelayTimerFires ==
    /\ pendingDelayTimers > 0
    /\ Commit(dispatch([Cur EXCEPT !.pendingDelayTimers = @ - 1,
                                   !.delayTimer = FALSE],
                       [type |-> "delay_elapsed"]))
    /\ UNCHANGED <<pendingInterrupt, clearTimers, clock, kv, tasks, sleepRun, timedRun, received,
                   settingChanges, logAtBoot>>

\* session.ts:324-326
CompactionTimerFires ==
    /\ compactionTimers > 0
    /\ Commit(performCompaction([Cur EXCEPT !.compactionTimers = @ - 1]))
    /\ UNCHANGED <<pendingInterrupt, clearTimers, clock, kv, tasks, sleepRun, timedRun, received,
                   settingChanges, logAtBoot>>

ClockTick ==
    /\ clock < MaxClock
    /\ clock' = clock + 1
    /\ UNCHANGED <<state, context, received, tasks, sleepRun, timedRun, sessionVars>>

Next ==
    \/ Start
    \/ UserMessage
    \/ ClearTimerFires
    \/ Step
    \/ SetMode
    \/ SetDelay
    \/ SyncStateFromDb
    \/ StreamChunk
    \/ StreamEnd
    \/ StreamError
    \/ ToolReturn
    \/ DelayTimerFires
    \/ CompactionTimerFires
    \/ Inject
    \/ ClockTick

Spec == Init /\ [][Next]_vars

(***************************************************************************)
(* SpecTurn: conversational turns as a connected client sees them.  The    *)
(* process has started on a fresh Store (main, part_004:19-34) and one     *)
(* WebSocket client has connected (server/index.ts:67-72).                 *)
(***************************************************************************)
TurnBoot ==
    [running |-> TRUE, state |-> Idle,
     context |-> createContext(loadHistory(<<>>, bootstrap(<<>>))),
     delayTimer |-> FALSE, pendingDelayTimers |-> 0,
     compactionTimers |-> 0, streams |-> <<>>, toolRun |-> <<>>,
     log |-> <<>>, sessions |-> bootstrap(<<>>), savedByFsm |-> 0,
     clock |-> 0,
     observer |-> [connected |-> TRUE,
                  frames |-> <<StateFrame("conversational", 5)>>],
     reentered |-> FALSE, executing |-> 0]

TurnInit ==
    /\ running = TurnBoot.running
    /\ state = TurnBoot.state
    /\ context = TurnBoot.context
    /\ delayTimer = TurnBoot.delayTimer
    /\ pendingInterrupt = FALSE
    /\ clock = 0
    /\ pendingDelayTimers = 0
    /\ clearTimers = <<>>
    /\ compactionTimers = 0
    /\ streams = <<>>
    /\ toolRun = <<>>
    /\ log = TurnBoot.log
    /\ sessions = TurnBoot.sessions
    /\ kv = [mode |-> "conversational", delay |-> 5]
    /\ tasks = <<>>
    /\ sleepRun = <<>>
    /\ timedRun = <<>>
    /\ observer = TurnBoot.observer
    /\ reentered = FALSE
    /\ savedByFsm = 0
    /\ received = [c \in UserContents |-> 0]
    /\ settingChanges = 0
    /\ logAtBoot = 0

TurnNext ==
    \/ UserMessage
    \/ ClearTimerFires
    \/ StreamChunk
    \/ StreamEnd
    \/ StreamError
    \/ ToolReturn

SpecTurn == TurnInit /\ [][TurnNext]_vars

(***************************************************************************)
(* SpecGrace: conversational turns in which a user message can arrive      *)
(* while the clear timer of the one before it is still pending.            *)
(***************************************************************************)
MaxGraceTimers == 2

GraceUserMessage == handleUserMessage(MaxGraceTimers)

GraceNext ==
    \/ GraceUserMessage
    \/ ClearTimerFires
    \/ StreamChunk
    \/ StreamEnd
    \/ StreamError
    \/ ToolReturn

SpecGrace == TurnInit /\ [][GraceNext]_vars

(***************************************************************************)
(* SpecAuto: the process started on a Store whose mode is autonomous and   *)
(* whose delay is 5 seconds; the settings are left alone and no stream     *)
(* fails.  An armed timer fires, a stream that has sent its chunks ends    *)
(* and an invoked tool returns: weak fairness of these three steps.        *)
(***************************************************************************)
AutoInit == Init /\ kv.mode = "autonomous"

AutoNext ==
    \/ Start
    \/ UserMessage
    \/ ClearTimerFires
    \/ StreamChunk
    \/ StreamEnd
    \/ ToolReturn
    \/ DelayTimerFires

SpecAuto ==
    /\ AutoInit
    /\ [][AutoNext]_vars
    /\ WF_vars(DelayTimerFires)
    /\ WF_vars(StreamEnd)
    /\ WF_vars(ToolReturn)

(***************************************************************************)
(* SpecPressure: conversational turns of a process started on a Store      *)
(* whose log holds one long answer, so that the window of the first turn   *)
(* is estimated at and just below 0.70, 0.90 and 1.10 of the context size. *)
(***************************************************************************)
PressureLengths == {2720, 2724, 3520, 3524, 4320, 4324}

PressureLogs ==
    {<<LogRow(1, "user", "hi", ""), LogRow(2, "assistant", Repeat("z", n), "")>> :
        n \in PressureLengths}

PressureInit ==
    /\ running = TRUE
    /\ state = Idle
    /\ delayTimer = FALSE
    /\ pendingInterrupt = FALSE
    /\ clock = 0
    /\ pendingDelayTimers = 0
    /\ clearTimers = <<>>
    /\ compactionTimers = 0
    /\ streams = <<>>
    /\ toolRun = <<>>
    /\ sessions = <<[id |-> 1, handoff_summary |-> "", ended |-> FALSE]>>
    /\ \E rows \in PressureLogs :
          /\ log = rows
          /\ context = createContext(loadHistory(rows, sessions))
    /\ kv = [mode |-> "conversational", delay |-> 5]
    /\ tasks = <<>>
    /\ sleepRun = <<>>
    /\ timedRun = <<>>
    /\ observer = TurnBoot.observer
    /\ reentered = FALSE
    /\ savedByFsm = 0
    /\ received = [c \in UserContents |-> 0]
    /\ settingChanges = 0
    /\ logAtBoot = 2

PressureNext ==
    \/ UserMessage
    \/ ClearTimerFires
    \/ StreamChunk
    \/ StreamEnd
    \/ StreamError
    \/ ToolReturn
    \/ CompactionTimerFires

SpecPressure == PressureInit /\ [][PressureNext]_vars

(***************************************************************************)
(* SpecDispatch: turns whose streams end with one tool call, by name.      *)
(* toolHandlers is an object literal (tools/index.ts:20-29): a lookup by   *)
(* name finds its own keys and, for other names, the members inherited     *)
(* from Object.prototype.  A value is tagged with its JavaScript type.     *)
(***************************************************************************)
StringValue(text) == [kind |-> "string", text |-> text]

ObjectValue == [kind |-> "object", text |-> "[object Object]"]

ToolHandlerNames ==
    {"web_fetch", "web_search", "filesystem", "terminal", "sleep", "notable",
     "task_status", "task_wait"}

\* toolHandlers[name]
lookupHandler(name) ==
    IF name \in ToolHandlerNames THEN "tool"
    ELSE IF name = "toString" THEN "Object.prototype.toString"
    ELSE IF name = "constructor" THEN "Object"
    ELSE "undefined"

\* What a registered handler does with the call: it returns or it throws.
HandlerOutcomes ==
    {[throws |-> FALSE, text |-> "ok"], [throws |-> TRUE, text |-> "boom"]}

executeTool(name, outcome) ==
    LET handler == lookupHandler(name)
    IN CASE handler = "undefined" ->
                StringValue("Error: Unknown tool \"" \o name \o "\"")
         [] handler = "tool" ->
                IF outcome.throws THEN StringValue("Error: " \o outcome.text)
                ELSE StringValue(outcome.text)
         \* called with this = undefined
         [] handler = "Object.prototype.toString" -> StringValue("[object Undefined]")
         \* Object(input) returns its argument, the parsed input
         [] handler = "Object" -> ObjectValue

DispatchNames == {"sleep", "nope", "toString", "constructor"}

DispatchCalls ==
    {<<ToolCall("call_1", name, arguments)>> :
        name \in DispatchNames, arguments \in {"{}", "{"}}

\* session.ts:238-243 with a reply that holds one tool call.
ToolStreamEnd ==
    /\ \E i \in 1..Len(streams) : \E tcs \in DispatchCalls :
          /\ streams[i].sent = <<>>
          /\ Commit(streamEnd(WithoutStream(Cur, i), AssistantMsg("", tcs), <<>>))
    /\ UNCHANGED <<pendingInterrupt, clearTimers, clock, kv, tasks, sleepRun,
                   timedRun, received, settingChanges, logAtBoot>>

\* session.ts:278-288 and 244-247.  executeTool settles; a string goes to
\* addMessage and to the FSM.  A value that is no string is bound to the
\* INSERT of addMessage: the statement either stores its string form or
\* throws, and the exception leaves the loop for the catch of startStream.
ToolSettles ==
    /\ \E i \in 1..Len(toolRun) : \E outcome \in HandlerOutcomes :
          LET run == toolRun[i]
              value == executeTool(run.toolCalls[run.index].name, outcome)
          IN \/ /\ value.kind \in {"string", "object"}
                /\ Commit(toolReturn(Cur, i, value.text))
             \/ /\ value.kind # "string"
                /\ Commit(dispatch([Cur EXCEPT !.toolRun = RemoveAt(@, i)],
                                   [type |-> "stream_error", error |-> value.text]))
    /\ UNCHANGED <<pendingInterrupt, clearTimers, clock, kv, tasks, sleepRun,
                   timedRun, received, settingChanges, logAtBoot>>

DispatchNext ==
    \/ UserMessage
    \/ ClearTimerFires
    \/ ToolStreamEnd
    \/ ToolSettles

SpecDispatch == TurnInit /\ [][DispatchNext]_vars

(***************************************************************************)
(* SpecTasks: the background_tasks table under arbitrary calls of its      *)
(* three writers (db/messages.ts:158-171).  A null column is <<>>.         *)
(***************************************************************************)
MaxTasks == 3

TaskTools == {"terminal", "web_fetch"}

TaskResults == {"out", ""}

TaskErrors == {"timeout"}

\* INSERT INTO background_tasks; the fresh UUID is the row's position.
createBackgroundTask(rows, toolName, now) ==
    Append(rows, [id |-> Len(rows) + 1, tool_name |-> toolName,
                  status |-> "running", result |-> <<>>, error |-> <<>>,
                  created_at |-> now, completed_at |-> <<>>])

\* UPDATE background_tasks SET status, result, error, completed_at WHERE id = ?
updateBackgroundTask(rows, status, result, error, now, id) ==
    [i \in 1..Len(rows) |->
        IF rows[i].id = id
        THEN [rows[i] EXCEPT !.status = status, !.result = result,
                             !.error = error, !.completed_at = <<now>>]
        ELSE rows[i]]

completeBackgroundTask(rows, id, result, now) ==
    updateBackgroundTask(rows, "completed", <<result>>, <<>>, now, id)

failBackgroundTask(rows, id, error, now) ==
    updateBackgroundTask(rows, "failed", <<>>, <<error>>, now, id)

TasksInit == FsmInit

CreateBackgroundTask ==
    /\ Len(tasks) < MaxTasks
    /\ \E toolName \in TaskTools : tasks' = createBackgroundTask(tasks, toolName, clock)
    /\ UNCHANGED <<state, context, clock, received, sleepRun, timedRun, sessionVars>>

CompleteBackgroundTask ==
    /\ \E id \in 1..MaxTasks, result \in TaskResults :
          tasks' = completeBackgroundTask(tasks, id, result, clock)
    /\ UNCHANGED <<state, context, clock, received, sleepRun, timedRun, sessionVars>>

FailBackgroundTask ==
    /\ \E id \in 1..MaxTasks, error \in TaskErrors :
          tasks' = failBackgroundTask(tasks, id, error, clock)
    /\ UNCHANGED <<state, context, clock, received, sleepRun, timedRun, sessionVars>>

(***************************************************************************)
(* A tool invoked with a timeout (unnamed/part_003:127-154 for terminal,   *)
(* agent/tools/web-fetch.ts:164-200, agent/tools/web-search.ts:115-148).   *)
(* An invocation is its tool, the rows it created, every piece of work it  *)
(* started (the row the work reports to, 0 for none, and whether it is the *)
(* one raced against the timeout) and what it returned.                    *)
(***************************************************************************)
MaxTimedRuns == 1

TimedTools == {"terminal", "web_fetch", "web_search"}

Work(row, raced) == [row |-> row, raced |-> raced, settled |-> FALSE]

\* Up to the await of Promise.race.
timedCall(rows, tool, now) ==
    IF tool = "web_search"
    THEN [tasks |-> rows,
          run |-> [tool |-> tool, phase |-> "racing", rows |-> <<>>,
                   works |-> <<Work(0, TRUE)>>, returned |-> <<>>]]
    ELSE [tasks |-> createBackgroundTask(rows, tool, now),
          run |-> [tool |-> tool, phase |-> "racing",
                   rows |-> <<Len(rows) + 1>>,
                   works |-> <<Work(Len(rows) + 1, TRUE)>>, returned |-> <<>>]]

\* The catch branch for the error 'timeout'.
timeoutWins(rows, run, now) ==
    IF run.tool = "terminal"
    THEN [tasks |-> rows,
          run |-> [run EXCEPT
                     !.phase = "backgrounded",
                     !.works = Append(@, Work(run.rows[1], FALSE)),
                     !.returned = <<[task_id |-> run.rows[1]]>>]]
    ELSE [tasks |-> createBackgroundTask(rows, run.tool, now),
          run |-> [run EXCEPT
                     !.phase = "backgrounded",
                     !.rows = Append(@, Len(rows) + 1),
                     !.works = Append(@, Work(Len(rows) + 1, FALSE)),
                     !.returned = <<[task_id |-> Len(rows) + 1]>>]]

\* A piece of work resolves (ok) or rejects.
workSettles(rows, run, w, ok, outcome, now) ==
    LET work == run.works[w]
        run1 == [run EXCEPT !.works[w].settled = TRUE]
    IN IF work.raced
       THEN IF run.phase # "racing" THEN [tasks |-> rows, run |-> run1]
            ELSE IF ok
            THEN [tasks |-> IF work.row = 0 THEN rows
                            ELSE completeBackgroundTask(rows, work.row, outcome, now),
                  run |-> [run1 EXCEPT !.phase = "returned",
                                       !.returned = <<[result |-> outcome]>>]]
            ELSE [tasks |-> rows,
                  run |-> [run1 EXCEPT !.phase = "returned",
                                       !.returned = <<[error |-> outcome]>>]]
       ELSE [tasks |-> IF ok THEN completeBackgroundTask(rows, work.row, outcome, now)
                       ELSE failBackgroundTask(rows, work.row, outcome, now),
             run |-> run1]

TimedCall ==
    /\ Len(timedRun) < MaxTimedRuns
    /\ Len(tasks) + 2 <= MaxTasks
    /\ \E tool \in TimedTools :
          LET r == timedCall(tasks, tool, clock)
          IN tasks' = r.tasks /\ timedRun' = Append(timedRun, r.run)
    /\ UNCHANGED <<state, context, clock, received, sleepRun, sessionVars>>

TimeoutWins ==
    /\ \E i \in 1..Len(timedRun) :
          /\ timedRun[i].phase = "racing"
          /\ LET r == timeoutWins(tasks, timedRun[i], clock)
             IN tasks' = r.tasks /\ timedRun' = [timedRun EXCEPT ![i] = r.run]
    /\ UNCHANGED <<state, context, clock, received, sleepRun, sessionVars>>

WorkSettles ==
    /\ \E i \in 1..Len(timedRun) : \E w \in 1..Len(timedRun[i].works) :
          /\ ~timedRun[i].works[w].settled
          /\ \E ok \in BOOLEAN :
                LET r == workSettles(tasks, timedRun[i], w, ok,
                                     IF ok THEN "out" ELSE "timeout", clock)
                IN tasks' = r.tasks /\ timedRun' = [timedRun EXCEPT ![i] = r.run]
    /\ UNCHANGED <<state, context, clock, received, sleepRun, sessionVars>>

TasksNext ==
    \/ CreateBackgroundTask
    \/ CompleteBackgroundTask
    \/ FailBackgroundTask
    \/ TimedCall
    \/ TimeoutWins
    \/ WorkSettles
    \/ ClockTick

SpecTasks == TasksInit /\ [][TasksNext]_vars

(***************************************************************************)
(* SpecLog: the messages table under the operations of the Store, with     *)
(* the timestamp column that the session model leaves out.  The listing    *)
(* reads the rows through idx_messages_timestamp, that is by timestamp     *)
(* and, for equal timestamps, by rowid.                                    *)
(***************************************************************************)
MaxLogRows == 4

LogSources == {"user", "assistant"}

\* INSERT INTO messages ... with timestamp = Date.now(); id is AUTOINCREMENT.
insertMessage(rows, source, content, now) ==
    Append(rows, [id |-> Len(rows) + 1, source |-> source, content |-> content,
                  tool_name |-> "", tool_input |-> "", timestamp |-> now])

\* A faulty listing: rows of one millisecond come out newest first.
selectAllMessagesTiesReversed(rows) ==
    SortSeq(rows, LAMBDA a, b : \/ a.timestamp < b.timestamp
                                \/ a.timestamp = b.timestamp /\ a.id > b.id)

\* SELECT * FROM messages ORDER BY timestamp ASC
selectAllMessages(rows) ==
    SortSeq(rows, LAMBDA a, b : \/ a.timestamp < b.timestamp
                                \/ a.timestamp = b.timestamp /\ a.id < b.id)

AddMessage ==
    /\ Len(log) < MaxLogRows
    /\ \E source \in LogSources : log' = insertMessage(log, source, "hi", clock)
    /\ UNCHANGED <<running, state, context, delayTimer, pendingInterrupt, clock,
                   pendingDelayTimers, clearTimers, compactionTimers, streams,
                   toolRun, sessions, kv, tasks, sleepRun, timedRun, observer,
                   reentered, savedByFsm, received, settingChanges, logAtBoot>>

\* setState (upsertState) on the key mode.
SetState ==
    /\ \E mode \in Modes : kv' = [kv EXCEPT !.mode = mode]
    /\ UNCHANGED <<running, state, context, delayTimer, pendingInterrupt, clock,
                   pendingDelayTimers, clearTimers, compactionTimers, streams,
                   toolRun, log, sessions, tasks, sleepRun, timedRun, observer,
                   reentered, savedByFsm, received, settingChanges, logAtBoot>>

\* endCurrentSession followed by startSession, as a rollover does.
RollSession ==
    /\ Len(sessions) < 2
    /\ sessions' = startSession(endCurrentSession(sessions), "")
    /\ UNCHANGED <<running, state, context, delayTimer, pendingInterrupt, clock,
                   pendingDelayTimers, clearTimers, compactionTimers, streams,
                   toolRun, log, kv, tasks, sleepRun, timedRun, observer,
                   reentered, savedByFsm, received, settingChanges, logAtBoot>>

LogNext ==
    \/ AddMessage
    \/ SetState
    \/ RollSession
    \/ CreateBackgroundTask
    \/ Tick

SpecLog == FsmInit /\ [][LogNext]_vars

(***************************************************************************)
(* SpecWait: one call of task_wait (agent/tools/task-wait.ts:29-66) while  *)
(* the table's writers run.  The call is kept in timedRun: its arguments,  *)
(* the row it found when it was called, the polls made, whether a poll saw *)
(* status running, and what it returned.  The clock counts milliseconds.   *)
(* The table gets one row, of id 1; id 2 stays unknown.                    *)
(***************************************************************************)
PollIntervalMs == 100

MaxWaitClock == 300

WaitTimeouts == {0, 100, 250}

WaitTaskIds == {1, 2}

\* messages.ts:173-175; no row is <<>>.
getBackgroundTask(rows, id) ==
    IF \E i \in 1..Len(rows) : rows[i].id = id
    THEN <<rows[CHOOSE i \in 1..Len(rows) : rows[i].id = id]>>
    ELSE <<>>

\* JSON.stringify of the object returned at task-wait.ts:61-65.
TimeoutEnvelope(taskId, timeout) ==
    "{\"status\":\"running\",\"message\":\"Timeout exceeded after "
        \o ToString(timeout) \o "ms. Task still running.\",\"task_id\":\""
        \o ToString(taskId) \o "\"}"

\* task-wait.ts:43: the while test.
loopContinues(run, now) == now - run.startTime < run.timeout

\* task-wait.ts:43-65 from the while test up to the next await or the return.
taskWaitLoop(rows, run, now) ==
    IF loopContinues(run, now)
    THEN LET task == getBackgroundTask(rows, run.taskId)
             polled == [run EXCEPT !.polls = @ + 1]
         IN IF task = <<>>
            THEN [polled EXCEPT !.phase = "returned",
                    !.returned = <<"Error: Task not found: " \o ToString(run.taskId)>>]
            ELSE IF task[1].status = "completed"
            THEN [polled EXCEPT !.phase = "returned",
                    !.returned = <<IF task[1].result = <<>> THEN "(no result)"
                                   ELSE task[1].result[1]>>]
            ELSE IF task[1].status = "failed"
            THEN [polled EXCEPT !.phase = "returned",
                    !.returned = <<"Error: " \o (IF task[1].error = <<>>
                                                 THEN "Task failed"
                                                 ELSE task[1].error[1])>>]
            ELSE [polled EXCEPT !.phase = "sleeping",
                                !.sawRunning = TRUE,
                                !.wakeAt = now + PollIntervalMs]
    ELSE [run EXCEPT !.phase = "returned",
                     !.returned = <<TimeoutEnvelope(run.taskId, run.timeout)>>]

\* task-wait.ts:29-43 and the first pass of the loop.
taskWait(rows, taskId, timeout, now) ==
    taskWaitLoop(rows,
                 [tool |-> "task_wait", taskId |-> taskId, timeout |-> timeout,
                  startTime |-> now, atCall |-> getBackgroundTask(rows, taskId),
                  polls |-> 0, sawRunning |-> FALSE, wakeAt |-> 0,
                  phase |-> "called", returned |-> <<>>],
                 now)

WaitCall ==
    /\ timedRun = <<>>
    /\ \E taskId \in WaitTaskIds, timeout \in WaitTimeouts :
          timedRun' = <<taskWait(tasks, taskId, timeout, clock)>>
    /\ UNCHANGED <<state, context, clock, received, tasks, sleepRun, sessionVars>>

\* Bun.sleep(pollInterval) resolves, at its time or later.
WaitWake ==
    /\ timedRun # <<>>
    /\ timedRun[1].phase = "sleeping"
    /\ clock >= timedRun[1].wakeAt
    /\ timedRun' = <<taskWaitLoop(tasks, timedRun[1], clock)>>
    /\ UNCHANGED <<state, context, clock, received, tasks, sleepRun, sessionVars>>

WaitTick ==
    /\ clock < MaxWaitClock
    /\ clock' = clock + PollIntervalMs
    /\ UNCHANGED <<state, context, received, tasks, sleepRun, timedRun, sessionVars>>

WaitCreateTask ==
    /\ tasks = <<>>
    /\ CreateBackgroundTask

WaitNext ==
    \/ WaitCreateTask
    \/ CompleteBackgroundTask
    \/ FailBackgroundTask
    \/ WaitCall
    \/ WaitWake
    \/ WaitTick

SpecWait == TasksInit /\ [][WaitNext]_vars

(***************************************************************************)
(* SpecSleep: one invocation of the sleep tool (unnamed/part_002:52-84)    *)
(* awaited by the tool loop, against user messages and the timers that     *)
(* clear pendingInterrupt.  The clock counts milliseconds and advances in  *)
(* steps of TickMs; a timer fires when the clock reaches its due time, and *)
(* timers due at the same instant fire in either order.                    *)
(***************************************************************************)
MAX_SLEEP_MS == 30000

CheckInterval == 100

TickMs == CheckInterval \div 2

MaxSleepClock == 1200

SleepSeconds == {1}

Min(a, b) == IF a <= b THEN a ELSE b

toMilliseconds(duration, unit) ==
    CASE unit = "seconds" -> duration * 1000
      [] unit = "minutes" -> duration * 60 * 1000
      [] unit = "hours" -> duration * 60 * 60 * 1000

formatDuration(ms) ==
    LET seconds == ms \div 1000
        minutes == seconds \div 60
        hours == minutes \div 60
    IN IF seconds < 60 THEN ToString(seconds) \o " seconds"
       ELSE IF minutes < 60 THEN ToString(minutes) \o " minutes"
       ELSE ToString(hours) \o " hours"

SleepCalls(seconds) ==
    <<ToolCall("call_1", "sleep",
               "{\"duration\":" \o ToString(seconds) \o ",\"unit\":\"seconds\"}")>>

\* The loop of sleep from the head of an iteration to its await or return.
sleepIteration(run, interrupt, now) ==
    LET elapsed == now - run.startTime
    IN IF elapsed < run.totalMs
       THEN IF interrupt
            THEN [run EXCEPT
                    !.phase = "returned",
                    !.result = "Sleep interrupted after " \o formatDuration(elapsed)]
            ELSE [run EXCEPT
                    !.wakeAt = now + Min(CheckInterval, run.totalMs - elapsed)]
       ELSE [run EXCEPT
               !.phase = "returned",
               !.result = "Sleep completed (" \o formatDuration(run.totalMs) \o ")"
                   \o (IF run.requestedMs > MAX_SLEEP_MS
                       THEN " (requested " \o formatDuration(run.requestedMs)
                               \o ", capped at 30 seconds)"
                       ELSE "")]

sleep(duration, unit, interrupt, now, seen) ==
    LET requestedMs == toMilliseconds(duration, unit)
    IN sleepIteration([phase |-> "sleeping", startTime |-> now,
                       requestedMs |-> requestedMs,
                       totalMs |-> Min(requestedMs, MAX_SLEEP_MS),
                       wakeAt |-> now, result |-> "",
                       seenAtCall |-> seen, seenAtReturn |-> seen],
                      interrupt, now)

\* No call of sleep has been made yet.
NoSleep ==
    [phase |-> "none", startTime |-> 0, requestedMs |-> 0, totalMs |-> 0,
     wakeAt |-> 0, result |-> "", seenAtCall |-> 0, seenAtReturn |-> 0]

\* The process has started on a fresh Store and a client has connected.
SleepInit ==
    /\ running = TurnBoot.running
    /\ state = TurnBoot.state
    /\ context = TurnBoot.context
    /\ delayTimer = TurnBoot.delayTimer
    /\ pendingInterrupt = FALSE
    /\ clock = 0
    /\ pendingDelayTimers = 0
    /\ clearTimers = <<>>
    /\ compactionTimers = 0
    /\ streams = <<>>
    /\ toolRun = <<>>
    /\ log = TurnBoot.log
    /\ sessions = TurnBoot.sessions
    /\ kv = [mode |-> "conversational", delay |-> 5]
    /\ tasks = <<>>
    /\ sleepRun = NoSleep
    /\ timedRun = <<>>
    /\ observer = TurnBoot.observer
    /\ reentered = FALSE
    /\ savedByFsm = 0
    /\ received = [c \in UserContents |-> 0]
    /\ settingChanges = 0
    /\ logAtBoot = 0

\* The stream of a turn ends with one call of sleep and the loop of
\* executeToolsSequentially invokes it (session.ts:238-243, 257-280): sleep
\* runs to its first await.  The call followed is one made while the
\* interrupt flag is clear.
SleepCall ==
    /\ sleepRun.phase = "none"
    /\ ~pendingInterrupt
    /\ \E i \in 1..Len(streams) : \E seconds \in SleepSeconds :
          /\ streams[i].sent = <<>>
          /\ Commit(streamEnd(WithoutStream(Cur, i),
                              AssistantMsg("", SleepCalls(seconds)), <<>>))
          /\ sleepRun' = sleep(seconds, "seconds", pendingInterrupt, clock,
                               received["hi"])
    /\ UNCHANGED <<pendingInterrupt, clearTimers, clock, kv, tasks, timedRun,
                   received, settingChanges, logAtBoot>>

\* Bun.sleep resolves: the loop reads the clock, probes onInterrupt and either
\* awaits again or returns to executeToolsSequentially (session.ts:278-288).
SleepWake ==
    /\ sleepRun.phase = "sleeping"
    /\ clock = sleepRun.wakeAt
    /\ LET run == sleepIteration(sleepRun, pendingInterrupt, clock)
       IN IF run.phase = "returned"
          THEN /\ sleepRun' = [run EXCEPT !.seenAtReturn = received["hi"]]
               /\ Commit(toolReturn(Cur, 1, run.result))
          ELSE /\ sleepRun' = run
               /\ UNCHANGED <<running, state, context, delayTimer, pendingDelayTimers,
                              compactionTimers, streams, toolRun, log, sessions,
                              savedByFsm, observer, reentered>>
    /\ UNCHANGED <<pendingInterrupt, clearTimers, clock, kv, tasks, timedRun,
                   received, settingChanges, logAtBoot>>

\* session.ts:416-418 with the timer's delay.
ClearTimerDue ==
    /\ \E i \in 1..Len(clearTimers) :
          /\ clock = clearTimers[i]
          /\ clearTimers' = RemoveAt(clearTimers, i)
    /\ pendingInterrupt' = FALSE
    /\ UNCHANGED <<running, state, context, delayTimer, clock, pendingDelayTimers,
                   compactionTimers, streams, toolRun, log, sessions, kv, tasks,
                   sleepRun, timedRun, observer, reentered, savedByFsm, received,
                   settingChanges, logAtBoot>>

SleepTick ==
    /\ clock + TickMs <= MaxSleepClock
    /\ \A i \in 1..Len(clearTimers) : clock < clearTimers[i]
    /\ sleepRun.phase = "sleeping" => clock < sleepRun.wakeAt
    /\ clock' = clock + TickMs
    /\ UNCHANGED <<state, context, received, tasks, sleepRun, timedRun, sessionVars>>

SleepNext ==
    \/ UserMessage
    \/ SleepCall
    \/ SleepWake
    \/ ClearTimerDue
    \/ SleepTick

SpecSleep == SleepInit /\ [][SleepNext]_vars

(***************************************************************************)
(* Helpers of the properties.                                              *)
(***************************************************************************)
HasEffect(effects, e) == \E i \in 1..Len(effects) : effects[i] = e

HasEffectType(effects, type) == \E i \in 1..Len(effects) : effects[i].type = type

\* save_message immediately followed by broadcast_message for one message.
HasPersistPair(effects, source, content) ==
    \E i \in 1..(Len(effects) - 1) :
        /\ effects[i] = SaveMessage(source, content)
        /\ effects[i + 1] = BroadcastMessage(source, content)

RECURSIVE CountIn(_, _)
CountIn(s, x) ==
    IF s = <<>> THEN 0
    ELSE (IF Head(s) = x THEN 1 ELSE 0) + CountIn(Tail(s), x)

(***************************************************************************)
(* C2.  Every stream_end handled in streaming returns save_message and     *)
(* broadcast_message for the accumulated reasoning (when there is some)    *)
(* and for the assistant content (when non-empty), and                     *)
(* update_context_pressure when usage is present, on every route out of    *)
(* the turn.                                                               *)
(***************************************************************************)
C2_StreamEndPersists ==
    state.type = "streaming" =>
        \A ev \in StreamEndEvents :
            LET r == transition(state, context, ev, clock)
            IN /\ context.currentResponse.reasoning # "" =>
                    HasPersistPair(r.effects, "reasoning",
                                   context.currentResponse.reasoning)
               /\ ev.message.content # "" =>
                    HasPersistPair(r.effects, "assistant", ev.message.content)
               /\ ev.usage # <<>> =>
                    HasEffectType(r.effects, "update_context_pressure")

(***************************************************************************)
(* C3.  transition is deterministic: a second evaluation on the same       *)
(* state, context and event (made at a later reading of the clock) returns *)
(* the same state, context and effects.                                    *)
(***************************************************************************)
C3_Deterministic ==
    \A ev \in Events :
        \A later \in clock..MaxClock :
            transition(state, context, ev, later)
                = transition(state, context, ev, clock)

(***************************************************************************)
(* C7.  The retry ladder.  consecutiveErrors is 0 outside streaming (so    *)
(* every turn enters streaming with 0), only stream_error raises it, and   *)
(* from any turn start three stream_error events in a row give two retries *)
(* (recovery prompt appended, start_stream, still streaming) and then the  *)
(* pause (pause notice, counter 0, idle, no start_stream); stream_end      *)
(* resets the counter.                                                     *)
(***************************************************************************)
IsRetry(before, r, ev) ==
    /\ r.state.type = "streaming"
    /\ r.context.messages
         = Append(before.messages, ChatMsg("user", RecoveryPrompt(ev.error)))
    /\ r.context.consecutiveErrors = before.consecutiveErrors + 1
    /\ HasEffect(r.effects, StartStream)
    /\ ~HasEffect(r.effects, SaveMessage("system", PauseNotice(3)))

IsPause(before, r) ==
    /\ r.state = Idle
    /\ r.context = [before EXCEPT !.consecutiveErrors = 0]
    /\ ~HasEffect(r.effects, StartStream)
    /\ HasPersistPair(r.effects, "system", PauseNotice(3))

TurnStartEvents ==
    UserMessageEvents \cup ExternalMessageEvents \cup {[type |-> "autonomous_tick"]}

C7_RetryLadder ==
    /\ state.type # "streaming" => context.consecutiveErrors = 0
    /\ context.consecutiveErrors \in 0..2
    /\ state.type = "streaming" =>
          /\ \A ev \in StreamEndEvents :
                transition(state, context, ev, clock).context.consecutiveErrors = 0
          /\ \A ev \in Events \ (StreamEndEvents \cup StreamErrorEvents) :
                LET r == transition(state, context, ev, clock)
                IN r.state.type = "streaming" =>
                      r.context.consecutiveErrors = context.consecutiveErrors
    /\ state.type = "idle" =>
          \A ev \in TurnStartEvents : \A e1, e2, e3 \in StreamErrorEvents :
             LET r0 == transition(state, context, ev, clock)
                 r1 == transition(r0.state, r0.context, e1, clock)
                 r2 == transition(r1.state, r1.context, e2, clock)
                 r3 == transition(r2.state, r2.context, e3, clock)
             IN r0.state.type = "streaming" =>
                   /\ r0.context.consecutiveErrors = 0
                   /\ IsRetry(r0.context, r1, e1)
                   /\ IsRetry(r1.context, r2, e2)
                   /\ IsPause(r2.context, r3)

\* The pause has happened: idle again with both recovery prompts in the window.
C7_Witness ==
    /\ state = Idle
    /\ Len(context.messages) >= 3
    /\ Last(context.messages) = ChatMsg("user", RecoveryPrompt("boom"))
    /\ context.messages[Len(context.messages) - 1]
         = ChatMsg("user", RecoveryPrompt("boom"))

(***************************************************************************)
(* C8.  No user_message handed to the FSM is dropped: in streaming and     *)
(* executing_tools it goes to the tail of queuedUserMessages and nothing   *)
(* else changes and no effect is returned; in idle, waiting_delay and      *)
(* waiting_step it is appended to the window and a turn starts.  After any *)
(* event sequence every user message received is in the window or in the   *)
(* queue.                                                                  *)
(***************************************************************************)
C8_UserMessageKept ==
    /\ \A ev \in UserMessageEvents :
          LET r == transition(state, context, ev, clock)
          IN IF state.type \in {"streaming", "executing_tools"}
             THEN /\ r.state = state
                  /\ r.context = [context EXCEPT
                        !.queuedUserMessages = Append(@, ev.content)]
                  /\ r.effects = <<>>
             ELSE /\ r.state.type = "streaming"
                  /\ r.context.messages
                       = Append(context.messages, ChatMsg("user", ev.content))
                  /\ r.context.queuedUserMessages = context.queuedUserMessages
                  /\ r.context.turnNumber = context.turnNumber + 1
                  /\ HasEffect(r.effects, StartStream)
    /\ \A c \in UserContents :
          received[c] = CountIn(context.messages, ChatMsg("user", c))
                          + CountIn(context.queuedUserMessages, c)

\* Two messages were queued behind a running turn, a third went to the window.
C8_Witness ==
    /\ state.type \in {"streaming", "executing_tools"}
    /\ context.queuedUserMessages = <<"hi", "stop">>
    /\ \E c \in UserContents : CountIn(context.messages, ChatMsg("user", c)) > 0

(***************************************************************************)
(* Properties of the running session (Spec).                               *)
(***************************************************************************)
FsmRowsSinceBoot ==
    Cardinality({i \in (logAtBoot + 1)..Len(log) : log[i].source \in FsmOnlySources})

\* C1: every message the FSM emits for persistence (one save_message /
\* broadcast_message pair) is appended to the log exactly once: the rows of
\* source user, assistant or reasoning written since boot are as many as the
\* save_message effects executed for those sources.
C1_LogExactlyOnce == FsmRowsSinceBoot = savedByFsm

CurrentHandoff ==
    IF getCurrentSession(sessions) = <<>> THEN ""
    ELSE getCurrentSession(sessions)[1].handoff_summary

WindowPrefixOk ==
    /\ Len(context.messages) >= 1
    /\ context.messages[1] = ChatMsg("system", SystemPrompt)
    /\ CurrentHandoff # "" =>
          /\ Len(context.messages) >= 2
          /\ context.messages[2] =
                ChatMsg("system", formatSessionHandoff(CurrentHandoff))

\* C4 as stated: from creation of the session object onward the window is
\* non-empty, window[0] is the system prompt and, when the current session has
\* a handoff summary, window[1] is the formatted handoff block.
C4_WindowPrefixFromCreation == WindowPrefixOk

\* C4 amended: the window prefix holds in every state from start() onward,
\* through dispatched events, soft compactions and hard compactions.
C4_WindowPrefix == running => WindowPrefixOk

\* A hard compaction has replaced the window and events were dispatched after it.
C4_Witness ==
    /\ running
    /\ Len(sessions) = 3
    /\ CurrentHandoff # ""
    /\ Len(context.messages) > 2

\* C5: at most one session row is open at any point and, once bootstrap has
\* run, exactly one; across resume or create and across hard compactions.
C5_SessionUnique ==
    /\ Cardinality(OpenSessionIds(sessions)) <= 1
    /\ running => Cardinality(OpenSessionIds(sessions)) = 1

\* Two compaction timers armed in the same session have both fired.
C5_Witness ==
    /\ running
    /\ Len(sessions) = 4
    /\ compactionTimers = 0

Quiescent ==
    /\ running
    /\ streams = <<>>
    /\ toolRun = <<>>
    /\ pendingDelayTimers = 0
    /\ compactionTimers = 0
    /\ kv.mode = context.mode
    /\ kv.delay = context.delay

\* C9: a queued user message is processed without further user input: when
\* every stream has ended, every tool has returned and no timer is armed, no
\* message is left on queuedUserMessages.
C9_QueueDrained == Quiescent => context.queuedUserMessages = <<>>

(***************************************************************************)
(* Properties of the task table (SpecTasks) and of the sleep tool          *)
(* (SpecSleep).                                                            *)
(***************************************************************************)
\* C6: a task leaves running only for completed or failed, and once it is
\* terminal no call of completeTask or failTask changes its status, result,
\* error or completion timestamp.
C6_TerminalIsFinal ==
    [][\A i \in 1..Len(tasks) :
          tasks[i].status # "running" => tasks'[i] = tasks[i]]_vars

SleepInterrupted ==
    Len(sleepRun.result) >= 17 /\ SubSeq(sleepRun.result, 1, 17) = "Sleep interrupted"

\* C10: a sleep invocation during which a user message arrived returns the
\* 'Sleep interrupted' result, whatever the order of the clear timer and the
\* loop's probes.
C10_SleepInterrupted ==
    (sleepRun.phase = "returned" /\ sleepRun.seenAtReturn > sleepRun.seenAtCall)
        => SleepInterrupted

(***************************************************************************)
(* C11.  A received user message is processed before the next autonomous   *)
(* tick takes effect: a transition appends the autonomous nudge to the     *)
(* window only when queuedUserMessages is empty, and every path that ends  *)
(* a turn or fires a tick (post-turn routing, delay_elapsed, step, mode    *)
(* change to autonomous, the tick itself) with a message queued appends    *)
(* the head of the queue to the window as a user message, removes it from  *)
(* the queue and starts its turn.                                          *)
(***************************************************************************)
NudgeCount(messages) == CountIn(messages, ChatMsg("user", AutonomousNudge))

IsTickPath(st, ctx, ev) ==
    \/ st.type = "streaming" /\ ev.type = "stream_end"
          /\ Len(ev.message.tool_calls) = 0
    \/ st.type = "waiting_delay" /\ ev.type = "delay_elapsed"
    \/ st.type = "waiting_step" /\ ev.type = "step"
    \/ st.type = "idle" /\ ev.type = "mode_changed" /\ ev.mode = "autonomous"
    \/ st.type = "idle" /\ ev.type = "autonomous_tick" /\ ctx.mode = "autonomous"

C11_UserBeforeTick ==
    \A ev \in Events :
        LET r == transition(state, context, ev, clock)
            base == IF ev.type = "stream_end"
                    THEN Append(context.messages, ev.message)
                    ELSE context.messages
        IN /\ NudgeCount(r.context.messages) > NudgeCount(context.messages)
                => context.queuedUserMessages = <<>>
           /\ (IsTickPath(state, context, ev) /\ context.queuedUserMessages # <<>>)
                => /\ r.state.type = "streaming"
                   /\ r.context.messages
                        = Append(base, ChatMsg("user", Head(context.queuedUserMessages)))
                   /\ r.context.queuedUserMessages = Tail(context.queuedUserMessages)

\* Idle with a user message still queued, in a run that has taken a nudge:
\* the next tick finds the queue non-empty.
C11_Witness ==
    /\ state = Idle
    /\ context.queuedUserMessages # <<>>
    /\ NudgeCount(context.messages) > 0

(***************************************************************************)
(* C12.  Whenever a turn is triggered while the window's estimated tokens  *)
(* exceed 0.9 * context_size (any ratio above 0.90, 1.10 and more          *)
(* included), the context-pressure check appends the system warning to the *)
(* log and to the window and arms the session handoff.  The turn taken is  *)
(* the one a user message starts in idle; the window measured is the one   *)
(* the check sees, the user message included.                              *)
(***************************************************************************)
WarningRows(rows) ==
    Cardinality({i \in 1..Len(rows) :
        rows[i].source = "system" /\ rows[i].content = WarningContent})

WarningCount(messages) == CountIn(messages, ChatMsg("system", WarningContent))

C12_HardPressureWarns ==
    (running /\ state.type = "idle") =>
        \A c \in SessionContents :
            LET seen == Append(context.messages, ChatMsg("user", c))
                S1 == dispatch(Cur, [type |-> "user_message", content |-> c])
            IN 10 * estimateTotalTokens(seen) > 9 * ContextSize =>
                  /\ WarningRows(S1.log) = WarningRows(log) + 1
                  /\ WarningCount(S1.context.messages)
                        = WarningCount(context.messages) + 1
                  /\ S1.compactionTimers = compactionTimers + 1

C14_WarningOnce ==
    [][compactionTimers > 0 =>
          /\ compactionTimers' <= compactionTimers
          /\ WarningRows(log') = WarningRows(log)]_vars

(***************************************************************************)
(* C15.  waiting_delay is cancellable: the step that takes the FSM out of  *)
(* waiting_delay (a user message, whose turn starts at once, or a mode     *)
(* change to conversational) leaves no delay timer armed, so none delivers *)
(* delay_elapsed afterwards.                                               *)
(***************************************************************************)
C15_DelayTimerCancelled ==
    [][(state.type = "waiting_delay" /\ state'.type # "waiting_delay") =>
          /\ pendingDelayTimers' = 0
          /\ ~delayTimer']_vars

(***************************************************************************)
(* C16.  An accepted external injection that arrives while the FSM is idle *)
(* is appended to the log with its source and is consumed by the FSM as an *)
(* external_message: the FSM leaves idle for streaming with the formatted  *)
(* user message as the window's last entry.  Stated on the states in which *)
(* nothing is left that could still deliver an event: there the window of  *)
(* a session that has not been compacted since holds the formatted message *)
(* of every injection logged since boot.                                   *)
(***************************************************************************)
NoWarningSinceBoot == WarningRows(log) = WarningRows(SubSeq(log, 1, logAtBoot))

C16_InjectionConsumed ==
    (Quiescent /\ NoWarningSinceBoot /\ ExternalRowsSinceBoot > 0) =>
        CountIn(context.messages, ChatMsg("user", formatExternalMessage("cron", "tick")))
            >= ExternalRowsSinceBoot

(***************************************************************************)
(* C17.  A tool invoked with a timeout creates one task row and starts the *)
(* work exactly once; when the timeout wins, the work already started is   *)
(* left running and the task_id returned names the row created for the     *)
(* invocation.                                                             *)
(***************************************************************************)
C17_TimedWorkOnce ==
    \A i \in 1..Len(timedRun) :
        /\ Len(timedRun[i].rows) = 1
        /\ Len(timedRun[i].works) = 1
        /\ timedRun[i].phase = "backgrounded" =>
              timedRun[i].returned = <<[task_id |-> timedRun[i].rows[1]]>>

(***************************************************************************)
(* C18.  For a conversational turn started by a user_message in idle whose *)
(* reply is plain text without tool calls, a client receives, in order,    *)
(* the message frame of the user message, the token frames of the stream   *)
(* (their concatenation is the assistant content), then the message frame  *)
(* of the assistant message; and the fsm_state frames show streaming and   *)
(* then idle.  The turn looked at is the first one of the run: its reply   *)
(* is the third entry of the window.                                       *)
(***************************************************************************)
ChatFrames ==
    SelectSeq(observer.frames,
              LAMBDA f : \/ f.type = "token"
                         \/ /\ f.type = "message"
                            /\ f.data.source \in {"user", "assistant"})

FsmStateFrames == SelectSeq(observer.frames, LAMBDA f : f.type = "fsm_state")

RECURSIVE ConcatTokens(_)
ConcatTokens(frames) ==
    IF frames = <<>> THEN ""
    ELSE Head(frames).token \o ConcatTokens(Tail(frames))

FirstTurnReplied ==
    /\ Len(context.messages) >= 3
    /\ context.messages[2].role = "user"
    /\ context.messages[3].role = "assistant"
    /\ context.messages[3].content # ""
    /\ context.messages[3].tool_calls = <<>>

C18_TurnFrameOrder ==
    FirstTurnReplied =>
        /\ \E k \in 1..Len(ChatFrames) - 1 :
              /\ ChatFrames[1].type = "message"
              /\ ChatFrames[1].data.source = "user"
              /\ ChatFrames[1].data.content = context.messages[2].content
              /\ \A j \in 2..k : ChatFrames[j].type = "token"
              /\ ConcatTokens(SubSeq(ChatFrames, 2, k)) = context.messages[3].content
              /\ ChatFrames[k + 1].type = "message"
              /\ ChatFrames[k + 1].data.source = "assistant"
              /\ ChatFrames[k + 1].data.content = context.messages[3].content
        /\ Len(FsmStateFrames) >= 2
        /\ FsmStateFrames[1].state = "streaming"
        /\ FsmStateFrames[2].state = "idle"

(***************************************************************************)
(* C19.  Transitions are never interleaved: no event, the stream_start     *)
(* posted by startStream included, is dispatched while the effects of an   *)
(* earlier transition are still being executed.  reentered records that    *)
(* dispatch was entered while another dispatch was in its effect loop.     *)
(***************************************************************************)
C19_NoReentrantDispatch == ~reentered

(***************************************************************************)
(* C20.  The tool calls c1..cn of one assistant message are executed one   *)
(* at a time and in order: the tool_call row of ck, the invocation, the    *)
(* tool_result row of ck (tool_name = id of ck), the delivery of           *)
(* tool_result(ck), and only then anything of c(k+1).  At most one         *)
(* invocation is in flight; each delivery appends one tool entry with the  *)
(* id of ck to the window; the cursor stays in 0..n-1; the n-th            *)
(* tool_result, and no earlier one, takes the FSM to streaming with        *)
(* check_context_pressure followed by start_stream.                        *)
(* While ck is awaited the loop has written, since the start of the        *)
(* process, the rows call c1, result c1, ..., call ck of this run after    *)
(* the complete rows of earlier runs.                                      *)
(***************************************************************************)
ToolRowsSinceBoot ==
    SelectSeq(SubSeq(log, logAtBoot + 1, Len(log)),
              LAMBDA r : r.source \in {"tool_call", "tool_result"})

ExpectedToolRow(toolCalls, p, row) ==
    LET c == toolCalls[(((p - 1) \div 2) % Len(toolCalls)) + 1]
    IN IF p % 2 = 1
       THEN /\ row.source = "tool_call"
            /\ row.tool_name = c.name
            /\ row.content = "Calling " \o c.name
       ELSE /\ row.source = "tool_result"
            /\ row.tool_name = c.id

ToolResultStep(run) ==
    LET n == Len(run.toolCalls)
        ck == run.toolCalls[run.index]
    IN \A result \in ToolResults :
          LET r == transition(state, context,
                              [type |-> "tool_result", toolCallId |-> ck.id,
                               result |-> result], clock)
          IN /\ r.context.messages
                   = Append(context.messages,
                            [role |-> "tool", content |-> result,
                             tool_calls |-> <<>>, tool_call_id |-> ck.id])
             /\ run.index < n =>
                   /\ r.state = [state EXCEPT !.currentIndex = run.index]
                   /\ ~HasEffectType(r.effects, "start_stream")
             /\ run.index = n =>
                   /\ r.state.type = "streaming"
                   /\ Len(r.effects) >= 2
                   /\ r.effects[1] = CheckContextPressure
                   /\ r.effects[2] = StartStream

C20_ToolsSequential ==
    /\ Len(toolRun) <= 1
    /\ state.type = "executing_tools" <=> Len(toolRun) = 1
    /\ \A p \in 1..Len(ToolRowsSinceBoot) :
          ExpectedToolRow(ToolCalls2, p, ToolRowsSinceBoot[p])
    /\ toolRun = <<>> => Len(ToolRowsSinceBoot) % (2 * Len(ToolCalls2)) = 0
    /\ \A i \in 1..Len(toolRun) :
          LET run == toolRun[i]
              n == Len(run.toolCalls)
          IN /\ run.index \in 1..n
             /\ state.toolCalls = run.toolCalls
             /\ state.currentIndex = run.index - 1
             /\ Len(ToolRowsSinceBoot) % (2 * n) = 2 * run.index - 1
             /\ ToolResultStep(run)

C20_Witness ==
    /\ toolRun = <<>>
    /\ state.type = "streaming"
    /\ Len(ToolRowsSinceBoot) = 2 * Len(ToolCalls2)
    /\ Len(context.messages) >= 2
    /\ context.messages[Len(context.messages) - 1].tool_call_id = "call_1"
    /\ Last(context.messages).tool_call_id = "call_2"

(***************************************************************************)
(* C21.  Tool dispatch is never fatal to the turn.  Every tool_result row  *)
(* written for a call whose name is not a registered tool holds an         *)
(* 'Error:'-prefixed string, as does the row of a call whose handler       *)
(* threw; and whenever the FSM is in executing_tools a tool invocation is  *)
(* pending whose return delivers the tool_result, so the FSM leaves        *)
(* executing_tools.                                                        *)
(***************************************************************************)
HasErrorPrefix(text) == Len(text) >= 6 /\ SubSeq(text, 1, 6) = "Error:"

C21_ToolDispatchNeverFatal ==
    /\ \A p \in 1..Len(ToolRowsSinceBoot) :
          (p % 2 = 0 /\ ToolRowsSinceBoot[p - 1].tool_name \notin ToolHandlerNames)
              => HasErrorPrefix(ToolRowsSinceBoot[p].content)
    /\ state.type = "executing_tools" => Len(toolRun) = 1

(***************************************************************************)
(* C22.  getContextPressure classifies the estimated token count t of the  *)
(* window against the context size C: normal iff t < 0.70 C, soft iff      *)
(* 0.70 C <= t < 0.90 C, hard iff 0.90 C <= t < 1.10 C, overflow iff       *)
(* t >= 1.10 C; the three limits belong to the upper level.                *)
(***************************************************************************)
LevelOfTable(t, level) ==
    /\ level = "normal" <=> 10 * t < 7 * ContextSize
    /\ level = "soft" <=> (7 * ContextSize <= 10 * t /\ 10 * t < 9 * ContextSize)
    /\ level = "hard" <=> (9 * ContextSize <= 10 * t /\ 10 * t < 11 * ContextSize)
    /\ level = "overflow" <=> 11 * ContextSize <= 10 * t

EstimateFrames ==
    SelectSeq(observer.frames,
              LAMBDA f : f.type = "context_pressure" /\ f.data.maxTokens = ContextSize)

C22_PressureBoundaries ==
    /\ LET p == getContextPressure(context.messages)
       IN /\ p.tokens = estimateTotalTokens(context.messages)
          /\ LevelOfTable(p.tokens, p.level)
    /\ \A i \in 1..Len(EstimateFrames) :
          LevelOfTable(EstimateFrames[i].data.tokens, EstimateFrames[i].data.level)

\* The first check of a window estimated at exactly 0.70 C was published as soft.
C22_Witness ==
    /\ 10 * estimateTotalTokens(context.messages) = 7 * ContextSize
    /\ \E i \in 1..Len(observer.frames) :
          /\ observer.frames[i].type = "context_pressure"
          /\ observer.frames[i].data.tokens = estimateTotalTokens(context.messages)
          /\ observer.frames[i].data.level = "soft"

(***************************************************************************)
(* C23.  Soft compaction is idempotent: for the working window, keeping    *)
(* the first element and applying compactMessages to the rest twice gives  *)
(* the window that applying it once gives; a summarised tool message is    *)
(* not summarised again.                                                   *)
(***************************************************************************)
IsSummary(m) ==
    /\ m.role = "tool"
    /\ Len(m.content) >= 24
    /\ SubSeq(m.content, 1, 24) = "[Summarized tool result:"

C23_SoftCompactionIdempotent ==
    context.messages # <<>> =>
        /\ softCompact(softCompact(context.messages)) = softCompact(context.messages)
        /\ \A i \in 1..Len(context.messages) :
              LET m == summarizeMessage(context.messages[i])
              IN summarizeMessage(m) = m

\* A soft compaction has replaced a long tool result of the window by its summary.
C23_Witness ==
    /\ running
    /\ \E i \in 1..Len(context.messages) : IsSummary(context.messages[i])
    /\ softCompact(context.messages) = context.messages

(***************************************************************************)
(* C24.  Round trip of log to window.  In a run without compaction the     *)
(* window that loadHistory rebuilds from the log holds, after the system   *)
(* entries, the same sequence of user, assistant and tool entries as the   *)
(* live window, tool-call records included.                                *)
(***************************************************************************)
ChatEntries(messages) ==
    SelectSeq(messages, LAMBDA m : m.role \in {"user", "assistant", "tool"})

C24_LogRoundTrip ==
    ChatEntries(loadHistory(log, sessions)) = ChatEntries(context.messages)

IsWaiting(st) == st.type \in {"waiting_delay", "waiting_step"}

C26_ConversationalOnlyOnInput ==
    /\ IsWaiting(state) => context.mode = "autonomous"
    /\ (state.type = "idle" /\ context.mode = "conversational") =>
          transition(state, context, [type |-> "autonomous_tick"], clock)
              = Result(state, context, <<>>)
    /\ \A ev \in Events :
          LET r == transition(state, context, ev, clock)
          IN r.context.mode = "conversational" =>
                /\ ~IsWaiting(r.state)
                /\ NudgeCount(r.context.messages) = NudgeCount(context.messages)

\* Back in conversational mode and idle after an autonomous turn.
C26_Witness ==
    /\ state.type = "idle"
    /\ context.mode = "conversational"
    /\ NudgeCount(context.messages) > 0

StartsTurnWith(r, ctx, content) ==
    /\ r.state.type = "streaming"
    /\ r.context.turnNumber = ctx.turnNumber + 1
    /\ Last(r.context.messages) = ChatMsg("user", content)

(***************************************************************************)
(* C28.  Routing after a stream_end without tool calls, in this priority:  *)
(* a queued user message is taken from the head of the queue and starts a  *)
(* turn whatever the mode; else conversational mode goes to idle; else an  *)
(* infinite delay emits wait_for_step and waits for a step; else a delay   *)
(* above 0 emits schedule_delay(delay*1000) and waits that long; else the  *)
(* tick is processed at once.                                              *)
(***************************************************************************)
C28_PostTurnRouting ==
    state.type = "streaming" =>
        \A ev \in StreamEndEvents :
            Len(ev.message.tool_calls) = 0 =>
                LET r == transition(state, context, ev, clock)
                IN IF Len(context.queuedUserMessages) > 0
                   THEN /\ StartsTurnWith(r, context, Head(context.queuedUserMessages))
                        /\ r.context.queuedUserMessages = Tail(context.queuedUserMessages)
                   ELSE IF context.mode = "conversational"
                   THEN r.state = Idle
                   ELSE IF context.delay = Infinite
                   THEN /\ r.state = [type |-> "waiting_step"]
                        /\ HasEffect(r.effects, [type |-> "wait_for_step"])
                   ELSE IF context.delay > 0
                   THEN /\ r.state = [type |-> "waiting_delay",
                                      delayMs |-> context.delay * 1000]
                        /\ HasEffect(r.effects, [type |-> "schedule_delay",
                                                 delayMs |-> context.delay * 1000])
                   ELSE /\ StartsTurnWith(r, context, AutonomousNudge)
                        /\ r.context.queuedUserMessages = <<>>

\* A stream is open in conversational mode while a user message waits in the queue.
C28_Witness ==
    /\ state.type = "streaming"
    /\ context.mode = "conversational"
    /\ Len(context.queuedUserMessages) > 0
    /\ context.turnNumber < MaxTurns

(***************************************************************************)
(* C29.  mode_changed(m) sets the context mode to m in every state.  A     *)
(* waiting state goes to idle for m = conversational and stays for         *)
(* m = autonomous; streaming and executing_tools stay; idle stays for      *)
(* m = conversational and, for m = autonomous, starts the turn of a tick   *)
(* (one more turn, one more window entry).  Nothing else in the context    *)
(* changes.                                                                *)
(***************************************************************************)
C29_ModeChanged ==
    \A ev \in ModeChangedEvents :
        LET r == transition(state, context, ev, clock)
            set == [context EXCEPT !.mode = ev.mode]
        IN /\ r.context.mode = ev.mode
           /\ IF state.type = "idle" /\ ev.mode = "autonomous"
              THEN /\ r.state.type = "streaming"
                   /\ r.context.turnNumber = context.turnNumber + 1
                   /\ Len(r.context.messages) = Len(context.messages) + 1
                   /\ IsPrefix(context.messages, r.context.messages)
                   /\ Last(r.context.messages).role = "user"
                   /\ r.context.delay = context.delay
              ELSE /\ r.context = set
                   /\ r.state = IF IsWaiting(state) /\ ev.mode = "conversational"
                                THEN Idle
                                ELSE state

\* The agent waits out a delay in autonomous mode, where a change of mode can arrive.
C29_Witness ==
    /\ state.type = "waiting_delay"
    /\ context.mode = "autonomous"
    /\ context.turnNumber > 0

PressureFrames ==
    SelectSeq(observer.frames, LAMBDA f : f.type = "context_pressure")

(***************************************************************************)
(* C30.  Every context_pressure frame published, estimate-based or         *)
(* usage-based, carries max = ContextSize, ratio = tokens / ContextSize    *)
(* and the level of the four-level table for that ratio.                   *)
(***************************************************************************)
C30_PressureFramesUseContextSize ==
    \A i \in 1..Len(PressureFrames) :
        LET data == PressureFrames[i].data
        IN /\ data.maxTokens = ContextSize
           /\ data.ratio = <<data.tokens, ContextSize>>
           /\ data.level = pressureLevel(data.tokens, ContextSize)


(***************************************************************************)
(* C31.  The context's mode and delay are refreshed on event entry: a step *)
(* in which the FSM changes state on an event other than mode_changed and  *)
(* delay_changed starts from a context whose mode and delay are the ones   *)
(* the Store holds.                                                        *)
(***************************************************************************)
C31_SettingsFreshOnEvent ==
    [][(/\ running
        /\ state'.type # state.type
        /\ context'.mode = context.mode
        /\ context'.delay = context.delay)
          => (context.mode = kv.mode /\ context.delay = kv.delay)]_vars


IsTerminal(task) == task # <<>> /\ task[1].status \in {"completed", "failed"}

(***************************************************************************)
(* C32.  task_wait polls at least once for every timeout: a call made for  *)
(* a task that is already terminal returns a terminal payload, a call for  *)
(* an unknown id returns the not-found error, and the running envelope is  *)
(* returned only after a poll that saw status running.                     *)
(***************************************************************************)
C32_WaitPollsOnce ==
    \A i \in 1..Len(timedRun) :
        LET run == timedRun[i]
        IN run.phase = "returned" =>
            /\ run.polls >= 1
            /\ run.returned = <<TimeoutEnvelope(run.taskId, run.timeout)>>
                  => run.sawRunning
            /\ IsTerminal(run.atCall)
                  => run.returned # <<TimeoutEnvelope(run.taskId, run.timeout)>>
            /\ run.atCall = <<>>
                  => run.returned
                        = <<"Error: Task not found: " \o ToString(run.taskId)>>


(***************************************************************************)
(* C33.  Every task row created by a tool invocation reaches a terminal    *)
(* status once its work has finished, whether before or after the tool     *)
(* returned: when every piece of work of an invocation has settled, none   *)
(* of the rows it created is left in status running.                       *)
(***************************************************************************)
C33_TaskRowsSettle ==
    \A i \in 1..Len(timedRun) :
        LET run == timedRun[i]
        IN (\A w \in 1..Len(run.works) : run.works[w].settled) =>
              \A k \in 1..Len(run.rows) :
                  tasks[run.rows[k]].status \in {"completed", "failed"}


FsmStateEffects(effects) ==
    SelectSeq(effects, LAMBDA e : e.type = "broadcast_fsm_state")

(***************************************************************************)
(* C34.  The effects of a transition hold broadcast_fsm_state exactly when *)
(* the state tag after it differs from the tag before it, and then one,    *)
(* with the new tag and the new turn number.                               *)
(***************************************************************************)
C34_FsmStateBroadcastOnChange ==
    \A ev \in Events :
        LET r == transition(state, context, ev, clock)
        IN FsmStateEffects(r.effects)
              = IF r.state.type # state.type
                THEN <<[type |-> "broadcast_fsm_state",
                        fsmState |-> r.state.type,
                        turnNumber |-> r.context.turnNumber]>>
                ELSE <<>>


(***************************************************************************)
(* C35.  Soft compaction changes nothing but the content of old long tool  *)
(* messages: the window keeps its length and, at every position, the role, *)
(* the tool-call records and the tool_call_id; the first element and the   *)
(* last 10 are unchanged; an element is rewritten only if it has role      *)
(* tool, lies outside the last 10 and has more than 500 characters.        *)
(***************************************************************************)
C35_SoftCompactionFrame ==
    context.messages # <<>> =>
        LET w == context.messages
            c == softCompact(w)
        IN /\ Len(c) = Len(w)
           /\ c[1] = w[1]
           /\ \A i \in 1..Len(w) :
                 /\ c[i].role = w[i].role
                 /\ c[i].tool_call_id = w[i].tool_call_id
                 /\ c[i].tool_calls = w[i].tool_calls
                 /\ i > Len(w) - KeepRecent => c[i] = w[i]
                 /\ w[i].role \in {"user", "assistant", "system"} => c[i] = w[i]
                 /\ c[i] # w[i] =>
                       /\ w[i].role = "tool"
                       /\ i <= Len(w) - KeepRecent
                       /\ Len(w[i].content) > SummarizeOver

\* The window loaded at start holds a long tool result that the next soft
\* compaction rewrites, next to entries it leaves alone.
C35_Witness ==
    /\ running
    /\ Len(context.messages) > KeepRecent + 1
    /\ \E i \in 1..Len(context.messages) :
          /\ context.messages[i].role = "tool"
          /\ context.messages[i].tool_call_id # ""
          /\ softCompact(context.messages)[i] # context.messages[i]


(***************************************************************************)
(* C36.  User messages enter the working window in the order they were     *)
(* received.  The queue is first-in first-out, so the order is kept        *)
(* exactly when no message goes past it: a user_message that is appended   *)
(* to the window by the event that delivers it finds the queue empty.      *)
(***************************************************************************)
C36_UserMessagesInOrder ==
    \A ev \in UserMessageEvents :
        LET r == transition(state, context, ev, clock)
        IN r.context.messages # context.messages
              => context.queuedUserMessages = <<>>


\* The tool entry at position i answers a tool call of an earlier assistant entry.
ToolEntryAnswersCall(messages, i) ==
    \E j \in 1..(i - 1) :
        /\ messages[j].role = "assistant"
        /\ \E k \in 1..Len(messages[j].tool_calls) :
              messages[j].tool_calls[k].id = messages[i].tool_call_id

(***************************************************************************)
(* C37.  In every state of the running session each tool entry of the      *)
(* working window is preceded in the window by an assistant entry whose    *)
(* tool_calls holds the entry's tool_call_id.                              *)
(***************************************************************************)
C37_ToolEntriesFollowCalls ==
    running =>
        \A i \in 1..Len(context.messages) :
            context.messages[i].role = "tool"
                => ToolEntryAnswersCall(context.messages, i)


(***************************************************************************)
(* C38.  At most one delay timer is pending, and it is the one the handle  *)
(* delayTimer holds; every transition that enters waiting_delay emits      *)
(* schedule_delay for the state's delay, which clears the handle's timer   *)
(* before it arms the new one, so the timer pending in waiting_delay is    *)
(* the one its entry scheduled; delay_elapsed in any other state leaves    *)
(* state and context unchanged and has no effects.                         *)
(***************************************************************************)
C38_OneDelayTimer ==
    /\ pendingDelayTimers <= 1
    /\ delayTimer <=> pendingDelayTimers = 1
    /\ state.type # "waiting_delay" =>
          transition(state, context, [type |-> "delay_elapsed"], clock)
              = Result(state, context, <<>>)
    /\ \A ev \in Events :
          LET r == transition(state, context, ev, clock)
          IN (r.state.type = "waiting_delay" /\ state.type # "waiting_delay") =>
                HasEffect(r.effects, [type |-> "schedule_delay",
                                      delayMs |-> r.state.delayMs])

\* A user message has pre-empted a delay: its timer is still pending while the
\* turn it started is streaming.
C38_Witness ==
    /\ state.type = "streaming"
    /\ pendingDelayTimers = 1
    /\ context.mode = "autonomous"
    /\ received["hi"] > 0


(***************************************************************************)
(* C39.  While the session is running at most one model stream is in       *)
(* flight, and one is in flight only while the FSM is in state streaming:  *)
(* the stream whose chunks, end or error the FSM handles is the one        *)
(* started last.                                                           *)
(***************************************************************************)
C39_OneStreamInFlight ==
    running =>
        /\ Len(streams) <= 1
        /\ streams # <<>> => state.type = "streaming"

\* The second stream of a run is in flight: the first one has ended and its
\* answer is in the window.
C39_Witness ==
    /\ running
    /\ Len(streams) = 1
    /\ streams[1].sent # <<>>
    /\ context.turnNumber = 2
    /\ \E i \in 1..Len(context.messages) :
          context.messages[i].role = "assistant" /\ i > logAtBoot + 1


(***************************************************************************)
(* C40.  The pending-input flag stays set for the whole grace window of    *)
(* every user message: it is true whenever the clear timer of some user    *)
(* message is still pending, and false once all of them have fired.        *)
(***************************************************************************)
C40_FlagCoversGraceWindows ==
    running => (pendingInterrupt <=> clearTimers # <<>>)

====
